---- MODULE Spec2Model ----
(***************************************************************************)
(* Verification model of the ADS-B trace flattening and daily aggregation  *)
(* pipeline (meloods/adsb_analysis).                                       *)
(*                                                                         *)
(* The module holds one state machine per component of the pipeline; each  *)
(* has its own variables, initial predicate and next-state relation, and   *)
(* leaves the variables of the other components untouched:                 *)
(*                                                                         *)
(*   SpecConvert    src/src/data_eng/json_to_csv.py   convert_date_to_csv  *)
(*                  (main thread, worker threads, the three queues and the *)
(*                  ThreadSafeCSVWriter)                                   *)
(*   SpecAggregate  src/scripts/agg_daily_csv.py      aggregate_daily_csv  *)
(*   SpecDecode     the five trace decoders (scripts/json_to_csv.py,       *)
(*                  scripts/trace_processor.py, data_processing,           *)
(*                  data_eng/json_to_csv_streaming.py and                  *)
(*                  data_eng/json_to_csv.py) applied to one document       *)
(*   SpecReorder    the column ordering of scripts/trace_processor.py      *)
(*                  standardize_columns and scripts/agg_daily_csv.py       *)
(*                  process_final_dataframe applied to one frame           *)
(*   SpecBatch      src/scripts/batch_json_to_csv.py  batch_json_to_csv    *)
(*                  (sequential loop and thread pool)                      *)
(*   SpecWriter     the CSV writers HourlyCSVWriter (with its manager),    *)
(*                  CSVRowWriter and ThreadSafeCSVWriter                   *)
(*   SpecFilter     src/src/data_eng/time_filtering.py                     *)
(*                  process_time_filtering                                 *)
(*   SpecPipeline   the orchestrator scripts data_eng/run_pipeline.py and   *)
(*                  scripts/get_traces.py                                  *)
(*   SpecLock       ThreadSafeCSVWriter.write_rows called by several       *)
(*                  threads at once                                        *)
(*   SpecConversion one run of either conversion variant (SpecConvert or   *)
(*                  SpecBatch)                                             *)
(***************************************************************************)
EXTENDS Integers, Sequences, FiniteSets, Bags, TLC

(***************************************************************************)
(* Generic helpers.                                                        *)
(***************************************************************************)
RECURSIVE SumSeq(_)
SumSeq(s) == IF s = <<>> THEN 0 ELSE Head(s) + SumSeq(Tail(s))

Range(s) == {s[i] : i \in DOMAIN s}

(***************************************************************************)
(* ======================= convert_date_to_csv =========================== *)
(*                                                                         *)
(* Bounds of the conversion model.  QUEUE_SIZE, MAX_WORKERS and            *)
(* BATCH_WRITE_SIZE carry the names of the program's constants             *)
(* (json_to_csv.py:36-38, values 4, 1000 and 500) but are scaled down so   *)
(* that the queue capacity can be reached by a handful of files; what the  *)
(* code's behaviour depends on is the relation between the number of       *)
(* files, MAX_WORKERS and QUEUE_SIZE, and that relation is covered on both *)
(* sides (files + workers <= capacity and files + workers > capacity).     *)
(***************************************************************************)
MaxFiles == 4
MaxRowsPerFile == 2
MAX_WORKERS == 2
QUEUE_SIZE == 5
BATCH_WRITE_SIZE == 2

Workers == 1..MAX_WORKERS
\* The sentinel None that tells a worker to stop (json_to_csv.py:209, 336).
Sentinel == 0

VARIABLES
    json_files,       \* len(json_files): the files are 1..json_files
    file_rows,        \* file -> number of rows process_single_file returns for it
    mpc,              \* position of the main thread in convert_date_to_csv
    put_count,        \* items the main thread has put on file_queue in the current loop
    started,          \* number of worker threads started (workers 1..started run)
    file_queue,       \* Queue(maxsize=QUEUE_SIZE) of file ids and sentinels
    result_queue,     \* Queue(maxsize=QUEUE_SIZE) of row batches
    progress_queue,   \* Queue() of progress ticks: only their number matters
    wpc,              \* worker -> position in file_worker
    wrows,            \* worker -> rows of the file it is holding
    processed_files,  \* local of convert_date_to_csv
    pending_rows,     \* local of convert_date_to_csv
    got_rows,         \* local rows of convert_date_to_csv: the batch last taken
    process_calls,    \* file -> number of process_single_file calls made for it
    csv_rows,         \* data rows of the output CSV, in file order
    row_count,        \* ThreadSafeCSVWriter.row_count
    interrupted       \* a KeyboardInterrupt was caught in the collection loop

convVars == <<json_files, file_rows, mpc, put_count, started, file_queue,
              result_queue, progress_queue, wpc, wrows, processed_files,
              pending_rows, got_rows, process_calls, csv_rows, row_count,
              interrupted>>

(***************************************************************************)
(* State of aggregate_daily_csv (src/scripts/agg_daily_csv.py).            *)
(***************************************************************************)
VARIABLES
    csv_files,        \* the CSV files of the date's csv directory, in glob order
    use_parallel,     \* argument of aggregate_daily_csv (default True)
    apc,              \* position in aggregate_daily_csv
    batch_i,          \* batch_csv_reader's loop variable i
    sorted_batches,   \* local of aggregate_daily_csv
    final_df,         \* local of aggregate_daily_csv
    out_exists,       \* the daily CSV exists on disk
    out_rows,         \* data rows of the daily CSV
    out_headers,      \* for each header line of the daily CSV, the number of
                      \* data rows above it
    start_idx,        \* write_chunked_csv's loop variable
    agg_result        \* value returned ("none" until the call returns)

aggVars == <<csv_files, use_parallel, apc, batch_i, sorted_batches, final_df,
             out_exists, out_rows, out_headers, start_idx, agg_result>>

(***************************************************************************)
(* State of the decoder component: one trace document and what one of the  *)
(* decoders made of it.                                                    *)
(***************************************************************************)
VARIABLES
    doc,              \* the parsed JSON document (data)
    include_metadata, \* the metadata-inclusion flag
    decoder,          \* the decoder that ran ("none" before)
    dec_rows,         \* the rows it produced, in order
    dec_ok,           \* FALSE when it reported a failure for the file
    all_fieldnames,   \* the header of the static-schema CSV (<<>> before)
    csv_lines,        \* its data lines: each the cells of one row, in order
    write_raised      \* TRUE when write_rows raised

decVars == <<doc, include_metadata, decoder, dec_rows, dec_ok,
             all_fieldnames, csv_lines, write_raised>>

VARIABLES
    df_columns,       \* the columns of the frame, in arrival order
    reordered_by,     \* the function that ordered them ("none" before)
    out_columns       \* the columns of the frame it returned

reorderVars == <<df_columns, reordered_by, out_columns>>

VARIABLES
    trace_files,      \* the JSON files of the date: what each one holds
    force,            \* argument force of batch_json_to_csv
    parallel,         \* argument parallel of batch_json_to_csv
    bpc,              \* position of the main thread in batch_json_to_csv
    todo_files,       \* json_files after the filter: indices into trace_files
    submitted,        \* number of tasks submitted / files looped over so far
    task_state,       \* task -> "queued", "running", "done" or "collected"
    task_success,     \* task -> the success flag convert_single_file returned
    successful,       \* local of batch_convert_*
    failed,           \* local of batch_convert_*
    durations,        \* len(durations)
    convert_calls,    \* file -> number of convert_single_file calls made for it
    csv_written,      \* the files whose CSV was written in this run
    stage_result,     \* what batch_json_to_csv returned ("none" before)
    run_no            \* 1 in the first run of the stage for the date, 2 in the second

batchVars == <<trace_files, force, parallel, bpc, todo_files, submitted,
               task_state, task_success, successful, failed, durations,
               convert_calls, csv_written, stage_result, run_no>>

VARIABLES
    writer_class,       \* the class of the CSV writer(s) of the run
    wmpc,               \* position of the writer's client ("new", "open", "stats", "error", "exited")
    is_initialized,     \* writer -> its file was opened and the header written
    buffer,             \* writer -> len(self.buffer)
    total_rows_written, \* writer -> total_rows_written / rows_written / row_count
    row_counts,         \* writer -> rows the client handed to it
    file_exists,        \* writer -> its output file exists
    file_lines,         \* writer -> the lines of its file ("header" or "row")
    is_closed,          \* writer -> its file was closed
    header_keys,       \* the header CSVRowWriter fixed ("none" before)
    outside_header_calls, \* write_row calls whose row had a key outside the header
    stats              \* what get_statistics returned (taken FALSE before)

writerVars == <<writer_class, wmpc, is_initialized, buffer, total_rows_written,
                row_counts, file_exists, file_lines, is_closed, header_keys,
                outside_header_calls, stats>>

VARIABLES
    input_file,      \* the date's nearSG CSV: "missing", "nocolumn" or "data"
    input_rows,      \* the rows of the input CSV, in file order
    fpc,             \* position in process_time_filtering
    loaded_df,       \* the frame read, with the datetime_utc column added
    window_i,        \* number of time windows already processed
    output_exists,   \* window suffix -> its output CSV exists
    output_rows      \* window suffix -> the rows of its output CSV

filterVars == <<input_file, input_rows, fpc, loaded_df, window_i,
                output_exists, output_rows>>

VARIABLES
    orchestrator,    \* the script run: "run_pipeline" or "get_traces"
    dates,           \* args.dates, in the order of the command line
    date_outcome,    \* date -> the stage that goes wrong for it and how, or ok
    ppc,             \* position of the orchestrator
    date_i,          \* index in dates of the date being processed
    stage_i,         \* number of the stage to call next for that date
    attempted,       \* the stage calls made so far, as <<date, stage>>
    error_log,       \* the dates the orchestrator logged an error for
    exit_code        \* exit status of the process (read when ppc = "done")

pipelineVars == <<orchestrator, dates, date_outcome, ppc, date_i, stage_i,
                  attempted, error_log, exit_code>>

VARIABLES
    lock_holder,     \* the thread that holds self.lock, 0 when it is free
    tpc,             \* thread -> its position in write_rows ("idle" outside)
    call_no,         \* thread -> number of write_rows calls it has started
    call_rows,       \* thread -> len(rows) of its current call
    rows_done,       \* thread -> rows of its current call written so far
    loaded_count,    \* thread -> the row_count it read for the += of line 87
    shared_file,     \* the lines appended to the CSV, as <<thread, call, row>>
    shared_row_count,\* self.row_count
    completed_rows   \* total len(rows) of the calls that have returned

lockVars == <<lock_holder, tpc, call_no, call_rows, rows_done, loaded_count,
              shared_file, shared_row_count, completed_rows>>

vars == <<convVars, aggVars, decVars, reorderVars, batchVars, writerVars, filterVars, pipelineVars, lockVars>>

nonConvVars == <<aggVars, decVars, reorderVars, batchVars, writerVars, filterVars, pipelineVars, lockVars>>
nonAggVars == <<convVars, decVars, reorderVars, batchVars, writerVars, filterVars, pipelineVars, lockVars>>
nonDecVars == <<convVars, aggVars, reorderVars, batchVars, writerVars, filterVars, pipelineVars, lockVars>>
nonReorderVars == <<convVars, aggVars, decVars, batchVars, writerVars, filterVars, pipelineVars, lockVars>>
nonBatchVars == <<convVars, aggVars, decVars, reorderVars, writerVars, filterVars, pipelineVars, lockVars>>
nonWriterVars == <<convVars, aggVars, decVars, reorderVars, batchVars, filterVars, pipelineVars, lockVars>>
nonFilterVars == <<convVars, aggVars, decVars, reorderVars, batchVars, writerVars, pipelineVars, lockVars>>
nonPipelineVars == <<convVars, aggVars, decVars, reorderVars, batchVars, writerVars, filterVars, lockVars>>
nonLockVars == <<convVars, aggVars, decVars, reorderVars, batchVars, writerVars, filterVars, pipelineVars>>

\* The values a component's variables keep while another component runs.
ConvIdle ==
    /\ json_files = 0 /\ file_rows = <<>> /\ mpc = "idle" /\ put_count = 0
    /\ started = 0 /\ file_queue = <<>> /\ result_queue = <<>>
    /\ progress_queue = 0 /\ wpc = <<>> /\ wrows = <<>>
    /\ processed_files = 0 /\ pending_rows = <<>> /\ csv_rows = <<>>
    /\ got_rows = <<>> /\ process_calls = <<>>
    /\ row_count = 0 /\ interrupted = FALSE
DecIdle ==
    /\ doc = <<>> /\ include_metadata = FALSE /\ decoder = "idle"
    /\ dec_rows = <<>> /\ dec_ok = TRUE
    /\ all_fieldnames = <<>> /\ csv_lines = <<>> /\ write_raised = FALSE
ReorderIdle ==
    /\ df_columns = <<>> /\ reordered_by = "idle" /\ out_columns = <<>>
BatchIdle ==
    /\ trace_files = <<>> /\ force = FALSE /\ parallel = FALSE /\ bpc = "idle"
    /\ todo_files = <<>> /\ submitted = 0 /\ task_state = <<>>
    /\ task_success = <<>> /\ successful = 0 /\ failed = 0 /\ durations = 0
    /\ convert_calls = <<>> /\ csv_written = {} /\ stage_result = "none"
    /\ run_no = 0
\* The value of stats before get_statistics is called.
NoStatistics == [taken |-> FALSE, total_rows |-> 0, files_created |-> {}]
WriterIdle ==
    /\ writer_class = "idle" /\ wmpc = "idle" /\ is_initialized = <<>>
    /\ buffer = <<>> /\ total_rows_written = <<>> /\ row_counts = <<>>
    /\ file_exists = <<>> /\ file_lines = <<>> /\ is_closed = <<>>
    /\ header_keys = "none"
    /\ outside_header_calls = 0
    /\ stats = NoStatistics
FilterIdle ==
    /\ input_file = "idle" /\ input_rows = <<>> /\ fpc = "idle"
    /\ loaded_df = <<>> /\ window_i = 0
    /\ output_exists = <<>> /\ output_rows = <<>>
PipelineIdle ==
    /\ orchestrator = "idle" /\ dates = <<>> /\ date_outcome = <<>>
    /\ ppc = "idle" /\ date_i = 0 /\ stage_i = 0 /\ attempted = <<>>
    /\ error_log = <<>> /\ exit_code = 0
LockIdle ==
    /\ lock_holder = 0 /\ tpc = <<>> /\ call_no = <<>> /\ call_rows = <<>>
    /\ rows_done = <<>> /\ loaded_count = <<>> /\ shared_file = <<>>
    /\ shared_row_count = 0 /\ completed_rows = 0
AggIdle ==
    /\ csv_files = <<>> /\ use_parallel = TRUE /\ apc = "idle" /\ batch_i = 0
    /\ sorted_batches = <<>> /\ final_df = <<>> /\ out_exists = FALSE
    /\ out_rows = <<>> /\ out_headers = <<>> /\ start_idx = 0 /\ agg_result = "none"

\* process_single_file: the rows decoded from file f, each tagged with its
\* file and its position in the file's trace.  The decoding itself is
\* modelled field by field in the decoder component; here only the list of
\* rows returned matters ([] for a file that fails to parse or has no
\* usable entry).
RowsInReverse(f) == [i \in 1..file_rows[f] |-> <<f, file_rows[f] + 1 - i>>]
process_single_file(f) == [i \in 1..file_rows[f] |-> <<f, i>>]

\* Number of rows process_single_file returns over all input files.
TotalDecodedRows == SumSeq([f \in 1..json_files |-> file_rows[f]])

\* ThreadSafeCSVWriter.write_rows, called with a non-empty list: append the
\* rows under the lock and add their number to row_count.
WriteRowsDropped(rows) == UNCHANGED <<csv_rows, row_count>>
write_rows(rows) ==
    /\ csv_rows' = csv_rows \o rows
    /\ row_count' = row_count + Len(rows)

\* Queue.get: the item at the head leaves the queue as it is returned, so
\* no other get returns it.
QueueGetLeavesItem(queue) == queue
QueueAfterGet(queue) == Tail(queue)

ConvInit ==
    /\ AggIdle /\ DecIdle /\ ReorderIdle /\ BatchIdle /\ WriterIdle /\ FilterIdle /\ PipelineIdle /\ LockIdle
    /\ json_files \in 0..MaxFiles
    /\ file_rows \in [1..json_files -> 0..MaxRowsPerFile]
    /\ mpc = "discover"
    /\ put_count = 0
    /\ started = 0
    /\ file_queue = <<>>
    /\ result_queue = <<>>
    /\ progress_queue = 0
    /\ wpc = [w \in Workers |-> "get"]
    /\ wrows = [w \in Workers |-> <<>>]
    /\ processed_files = 0
    /\ pending_rows = <<>>
    /\ got_rows = <<>>
    /\ process_calls = [f \in 1..json_files |-> 0]
    /\ csv_rows = <<>>
    /\ row_count = 0
    /\ interrupted = FALSE

\* json_to_csv.py:299-328: discover the files; return at once when there is
\* none, else create the writer and the queues.
MainDiscover ==
    /\ mpc = "discover"
    /\ mpc' = IF json_files = 0 THEN "done" ELSE "fill"
    /\ UNCHANGED nonConvVars
    /\ UNCHANGED <<got_rows, process_calls, json_files, file_rows, put_count, started, file_queue,
                   result_queue, progress_queue, wpc, wrows, processed_files,
                   pending_rows, csv_rows, row_count, interrupted>>

\* json_to_csv.py:326-327: Queue(maxsize=QUEUE_SIZE), for file_queue and for
\* result_queue: put blocks while the queue holds maxsize items.
QueueNeverFull(queue) == FALSE
QueueFull(queue) == Len(queue) >= QUEUE_SIZE

\* json_to_csv.py:331-332: file_queue.put(file_path), a blocking put on a
\* bounded queue; no worker has been started yet.
MainPutFile ==
    /\ mpc = "fill"
    /\ ~QueueFull(file_queue)
    /\ file_queue' = Append(file_queue, put_count + 1)
    /\ IF put_count + 1 = json_files
          THEN mpc' = "sentinels" /\ put_count' = 0
          ELSE mpc' = mpc /\ put_count' = put_count + 1
    /\ UNCHANGED nonConvVars
    /\ UNCHANGED <<got_rows, process_calls, json_files, file_rows, started, result_queue,
                   progress_queue, wpc, wrows, processed_files, pending_rows,
                   csv_rows, row_count, interrupted>>

\* json_to_csv.py:335-336: file_queue.put(None), once per worker.
MainPutSentinel ==
    /\ mpc = "sentinels"
    /\ ~QueueFull(file_queue)
    /\ file_queue' = Append(file_queue, Sentinel)
    /\ IF put_count + 1 = MAX_WORKERS
          THEN mpc' = "start" /\ put_count' = 0
          ELSE mpc' = mpc /\ put_count' = put_count + 1
    /\ UNCHANGED nonConvVars
    /\ UNCHANGED <<got_rows, process_calls, json_files, file_rows, started, result_queue,
                   progress_queue, wpc, wrows, processed_files, pending_rows,
                   csv_rows, row_count, interrupted>>

\* json_to_csv.py:340-347: thread.start(), one worker at a time.
MainStartWorker ==
    /\ mpc = "start"
    /\ started' = started + 1
    /\ mpc' = IF started + 1 = MAX_WORKERS THEN "loop" ELSE mpc
    /\ UNCHANGED nonConvVars
    /\ UNCHANGED <<got_rows, process_calls, json_files, file_rows, put_count, file_queue, result_queue,
                   progress_queue, wpc, wrows, processed_files, pending_rows,
                   csv_rows, row_count, interrupted>>

\* json_to_csv.py:359: while processed_files < len(json_files).
MainLoopTest ==
    /\ mpc = "loop"
    /\ mpc' = IF processed_files < json_files THEN "progress" ELSE "flush"
    /\ UNCHANGED nonConvVars
    /\ UNCHANGED <<got_rows, process_calls, json_files, file_rows, put_count, started, file_queue,
                   result_queue, progress_queue, wpc, wrows, processed_files,
                   pending_rows, csv_rows, row_count, interrupted>>

\* json_to_csv.py:362-366: progress_queue.get_nowait() returned a tick.
MainProgressGet ==
    /\ mpc = "progress"
    /\ progress_queue > 0
    /\ progress_queue' = progress_queue - 1
    /\ processed_files' = processed_files + 1
    /\ UNCHANGED nonConvVars
    /\ UNCHANGED <<got_rows, process_calls, json_files, file_rows, mpc, put_count, started, file_queue,
                   result_queue, wpc, wrows, pending_rows, csv_rows,
                   row_count, interrupted>>

\* json_to_csv.py:367-368: progress_queue.get_nowait() raised Empty.
MainProgressEmpty ==
    /\ mpc = "progress"
    /\ progress_queue = 0
    /\ mpc' = "result"
    /\ UNCHANGED nonConvVars
    /\ UNCHANGED <<got_rows, process_calls, json_files, file_rows, put_count, started, file_queue,
                   result_queue, progress_queue, wpc, wrows, processed_files,
                   pending_rows, csv_rows, row_count, interrupted>>

\* json_to_csv.py:372: rows = result_queue.get(timeout=0.1) returned one
\* batch.
MainResultGet ==
    /\ mpc = "result"
    /\ result_queue # <<>>
    /\ result_queue' = Tail(result_queue)
    /\ got_rows' = Head(result_queue)
    /\ mpc' = "extend"
    /\ UNCHANGED nonConvVars
    /\ UNCHANGED <<process_calls, json_files, file_rows, put_count, started,
                   file_queue, progress_queue, wpc, wrows, processed_files,
                   pending_rows, csv_rows, row_count, interrupted>>

\* json_to_csv.py:373-376: pending_rows.extend(rows), then the test of the
\* batch size; below it the loop sleeps and tests its condition again.
MainExtend ==
    /\ mpc = "extend"
    /\ pending_rows' = pending_rows \o got_rows
    /\ mpc' = IF Len(pending_rows \o got_rows) >= BATCH_WRITE_SIZE THEN "write" ELSE "loop"
    /\ UNCHANGED nonConvVars
    /\ UNCHANGED <<got_rows, process_calls, json_files, file_rows, put_count,
                   started, file_queue, result_queue, progress_queue, wpc,
                   wrows, processed_files, csv_rows, row_count, interrupted>>

\* json_to_csv.py:377: csv_writer.write_rows(pending_rows).
MainWriteBatch ==
    /\ mpc = "write"
    /\ write_rows(pending_rows)
    /\ mpc' = "clear"
    /\ UNCHANGED nonConvVars
    /\ UNCHANGED <<got_rows, process_calls, json_files, file_rows, put_count,
                   started, file_queue, result_queue, progress_queue, wpc,
                   wrows, processed_files, pending_rows, interrupted>>

\* json_to_csv.py:378-385: pending_rows = [], then the sleep and the loop
\* condition again.
MainClearBatch ==
    /\ mpc = "clear"
    /\ pending_rows' = <<>>
    /\ mpc' = "loop"
    /\ UNCHANGED nonConvVars
    /\ UNCHANGED <<got_rows, process_calls, json_files, file_rows, put_count,
                   started, file_queue, result_queue, progress_queue, wpc,
                   wrows, processed_files, csv_rows, row_count, interrupted>>

\* json_to_csv.py:381-385: the get timed out on an empty queue.
MainResultEmpty ==
    /\ mpc = "result"
    /\ result_queue = <<>>
    /\ mpc' = "loop"
    /\ UNCHANGED nonConvVars
    /\ UNCHANGED <<got_rows, process_calls, json_files, file_rows, put_count, started, file_queue,
                   result_queue, progress_queue, wpc, wrows, processed_files,
                   pending_rows, csv_rows, row_count, interrupted>>

\* json_to_csv.py:387-389: KeyboardInterrupt inside the loop's try block,
\* at any statement of it.
MainInterrupt ==
    /\ mpc \in {"progress", "result", "extend", "write", "clear"}
    /\ interrupted' = TRUE
    /\ mpc' = "flush"
    /\ UNCHANGED nonConvVars
    /\ UNCHANGED <<got_rows, process_calls, json_files, file_rows, put_count, started, file_queue,
                   result_queue, progress_queue, wpc, wrows, processed_files,
                   pending_rows, csv_rows, row_count>>

\* json_to_csv.py:392-393: write any remaining rows.
MainFlush ==
    /\ mpc = "flush"
    /\ IF pending_rows # <<>>
          THEN write_rows(pending_rows)
          ELSE UNCHANGED <<csv_rows, row_count>>
    /\ pending_rows' = pending_rows
    /\ mpc' = "join"
    /\ UNCHANGED nonConvVars
    /\ UNCHANGED <<got_rows, process_calls, json_files, file_rows, put_count, started, file_queue,
                   result_queue, progress_queue, wpc, wrows, processed_files,
                   interrupted>>

\* json_to_csv.py:396-400: thread.join() for every worker, then return.
MainJoin ==
    /\ mpc = "join"
    /\ \A w \in Workers : wpc[w] = "exit"
    /\ mpc' = "done"
    /\ UNCHANGED nonConvVars
    /\ UNCHANGED <<got_rows, process_calls, json_files, file_rows, put_count, started, file_queue,
                   result_queue, progress_queue, wpc, wrows, processed_files,
                   pending_rows, csv_rows, row_count, interrupted>>

\* json_to_csv.py:208-214: file_queue.get(timeout=1) returned an item: leave
\* the loop on the sentinel, else decode the file.  (A get that times out
\* on an empty queue changes nothing and is retried: line 225-226.)
WorkerGet(w) ==
    /\ w <= started
    /\ wpc[w] = "get"
    /\ file_queue # <<>>
    /\ file_queue' = QueueAfterGet(file_queue)
    /\ LET item == Head(file_queue) IN
         IF item = Sentinel
            THEN /\ wpc' = [wpc EXCEPT ![w] = "exit"]
                 /\ wrows' = wrows
                 /\ process_calls' = process_calls
            ELSE LET decoded == process_single_file(item) IN
                 /\ wrows' = [wrows EXCEPT ![w] = decoded]
                 /\ wpc' = [wpc EXCEPT ![w] =
                              IF decoded # <<>> THEN "put_result" ELSE "put_progress"]
                 /\ process_calls' = [process_calls EXCEPT ![item] = @ + 1]
    /\ UNCHANGED nonConvVars
    /\ UNCHANGED <<got_rows, json_files, file_rows, mpc, put_count, started,
                   result_queue, progress_queue, processed_files,
                   pending_rows, csv_rows, row_count, interrupted>>

\* json_to_csv.py:214-215: result_queue.put(rows), a blocking put.
WorkerPutResult(w) ==
    /\ w <= started
    /\ wpc[w] = "put_result"
    /\ ~QueueFull(result_queue)
    /\ result_queue' = Append(result_queue, wrows[w])
    /\ wpc' = [wpc EXCEPT ![w] = "put_progress"]
    /\ UNCHANGED nonConvVars
    /\ UNCHANGED <<got_rows, process_calls, json_files, file_rows, mpc, put_count, started, file_queue,
                   progress_queue, wrows, processed_files, pending_rows,
                   csv_rows, row_count, interrupted>>

\* json_to_csv.py:217-219: progress_queue.put(1) on the unbounded queue,
\* then task_done() and back to the get.
WorkerPutProgress(w) ==
    /\ w <= started
    /\ wpc[w] = "put_progress"
    /\ progress_queue' = progress_queue + 1
    /\ wpc' = [wpc EXCEPT ![w] = "get"]
    /\ wrows' = [wrows EXCEPT ![w] = <<>>]
    /\ UNCHANGED nonConvVars
    /\ UNCHANGED <<got_rows, process_calls, json_files, file_rows, mpc, put_count, started, file_queue,
                   result_queue, processed_files, pending_rows, csv_rows,
                   row_count, interrupted>>

ConvNext ==
    \/ MainDiscover
    \/ MainPutFile
    \/ MainPutSentinel
    \/ MainStartWorker
    \/ MainLoopTest
    \/ MainProgressGet
    \/ MainProgressEmpty
    \/ MainResultGet
    \/ MainExtend
    \/ MainWriteBatch
    \/ MainClearBatch
    \/ MainResultEmpty
    \/ MainInterrupt
    \/ MainFlush
    \/ MainJoin
    \/ \E w \in Workers : WorkerGet(w)
    \/ \E w \in Workers : WorkerPutResult(w)
    \/ \E w \in Workers : WorkerPutProgress(w)

SpecConvert == ConvInit /\ [][ConvNext]_vars

(***************************************************************************)
(* C1: when convert_date_to_csv returns without a user interrupt, the      *)
(* writer's row_count equals the total number of rows process_single_file  *)
(* returned over all input files (every decoded row has been written).     *)
(***************************************************************************)
C1_AllDecodedRowsWritten ==
    (mpc = "done" /\ ~interrupted) => row_count = TotalDecodedRows

(***************************************************************************)
(* C2: convert_date_to_csv eventually returns: in every reachable state    *)
(* either the call has returned or some thread can take a step (the fill   *)
(* of the file queue, the collection loop and the join never block for     *)
(* good).                                                                  *)
(***************************************************************************)
C2_NeverBlocksForever == mpc = "done" \/ ENABLED ConvNext

(***************************************************************************)
(* ======================= aggregate_daily_csv =========================== *)
(*                                                                         *)
(* Bounds of the aggregation model.  BATCH_SIZE and CHUNK_SIZE carry the   *)
(* names of the program's constants (config.py:14-15, values 50 and 10000) *)
(* scaled down so that a directory can hold fewer files than, as many as   *)
(* and more files than one batch, and a frame fewer or more rows than one  *)
(* chunk.  MaxCsvRows bounds the number of rows over all files of a date.  *)
(***************************************************************************)
MaxCsvFiles == 3
MaxCsvRows == 3
BATCH_SIZE == 2
CHUNK_SIZE == 2

\* A cell of the abs_timestamp column as pd.read_csv yields it: a number, a
\* missing value (NaN) or text that is no number.
Timestamps == {1, 2}
NumCell(v) == [kind |-> "num", v |-> v]
NaNCell == [kind |-> "nan", v |-> 0]
TextCell == [kind |-> "text", v |-> 0]
Cells == {NumCell(v) : v \in Timestamps} \cup {NaNCell, TextCell}

\* What a CSV file of the directory can be: unreadable (empty, unparsable,
\* I/O error), without an abs_timestamp column, or a table whose
\* abs_timestamp cells are given row by row.  CsvContents(k): the files that
\* hold k rows.
CsvContents(k) ==
    {[kind |-> "data", cells |-> c] : c \in [1..k -> Cells]}
    \cup (IF k = 0 THEN {[kind |-> "unreadable", cells |-> <<>>],
                         [kind |-> "nocolumn", cells |-> <<>>]}
                   ELSE {})

\* A data frame is a sequence of rows; a row keeps its abs_timestamp cell
\* and, standing for its other columns, the file and line it came from.
FrameOf(f) ==
    [i \in 1..Len(csv_files[f].cells) |-> [ts |-> csv_files[f].cells[i], src |-> <<f, i>>]]

\* df.dropna(subset=["abs_timestamp"])
DropNa(df) == SelectSeq(df, LAMBDA r : r.ts.kind # "nan")

\* pd.to_numeric(df["abs_timestamp"], errors="coerce")
ToNumeric(df) ==
    [i \in DOMAIN df |-> IF df[i].ts.kind = "text" THEN [df[i] EXCEPT !.ts = NaNCell]
                                                  ELSE df[i]]

\* read_csv_safely: [ok |-> FALSE] stands for the None it returns.
NoFrame == [ok |-> FALSE, df |-> <<>>]
read_csv_safely(f) ==
    IF csv_files[f].kind = "unreadable" THEN NoFrame
    ELSE IF csv_files[f].kind = "nocolumn" THEN NoFrame
    ELSE LET df1 == DropNa(FrameOf(f)) IN
         IF Len(df1) = 0 THEN NoFrame
         ELSE LET df2 == DropNa(ToNumeric(df1)) IN
              IF Len(df2) = 0 THEN NoFrame ELSE [ok |-> TRUE, df |-> df2]

\* pd.concat(frames, ignore_index=True, sort=False)
RECURSIVE Concat(_)
Concat(dfs) == IF dfs = <<>> THEN <<>> ELSE Head(dfs) \o Concat(Tail(dfs))

\* df.sort_values("abs_timestamp", ascending=True) on a frame whose cells are
\* all numbers.  The order of rows of equal abs_timestamp is left to the
\* sorting algorithm by the code; the model keeps them in frame order.
InsertSorted(r, s) ==
    LET k == Cardinality({i \in DOMAIN s : s[i].ts.v <= r.ts.v})
    IN  SubSeq(s, 1, k) \o <<r>> \o SubSeq(s, k + 1, Len(s))
RECURSIVE SortValuesSorted(_)
SortValuesSorted(df) ==
    IF df = <<>> THEN <<>>
    ELSE InsertSorted(df[Len(df)], SortValuesSorted(SubSeq(df, 1, Len(df) - 1)))
SortValuesNoSort(df) == df
SortValues(df) == SortValuesSorted(df)

\* Series.is_monotonic_increasing
IsMonotonicIncreasing(df) ==
    \A i \in 1..(Len(df) - 1) : df[i].ts.v <= df[i + 1].ts.v

\* batch_csv_reader, lines 81-84: the frames of files lo..hi that could be read.
RECURSIVE BatchDataframes(_, _)
BatchDataframes(lo, hi) ==
    IF lo > hi THEN <<>>
    ELSE (IF read_csv_safely(lo).ok THEN <<read_csv_safely(lo).df>> ELSE <<>>)
         \o BatchDataframes(lo + 1, hi)

Min(a, b) == IF a <= b THEN a ELSE b

\* merge_sorted_dataframes (called with a non-empty list)
MergeFirstOnly(sorted_dfs) == sorted_dfs[1]
merge_sorted_dataframes(sorted_dfs) ==
    IF Len(sorted_dfs) = 1 THEN sorted_dfs[1]
    ELSE SortValues(Concat(sorted_dfs))

AggInit ==
    /\ ConvIdle /\ DecIdle /\ ReorderIdle /\ BatchIdle /\ WriterIdle /\ FilterIdle /\ PipelineIdle /\ LockIdle
    /\ csv_files = <<>>
    /\ use_parallel = TRUE
    /\ apc = "setup"
    /\ batch_i = 0
    /\ sorted_batches = <<>>
    /\ final_df = <<>>
    /\ out_exists = FALSE
    /\ out_rows = <<>>
    /\ out_headers = <<>>
    /\ start_idx = 0
    /\ agg_result = "none"

\* Number of rows over the files of the directory.
TotalCsvRows == SumSeq([f \in DOMAIN csv_files |-> Len(csv_files[f].cells)])

\* Before the call: the conversion stage leaves one more per-aircraft CSV in
\* the date's csv directory (scripts/json_to_csv.py:132-139, 142).
CsvFileAppears ==
    /\ apc = "setup"
    /\ Len(csv_files) < MaxCsvFiles
    /\ \E k \in 0..(MaxCsvRows - TotalCsvRows) : \E c \in CsvContents(k) :
           csv_files' = Append(csv_files, c)
    /\ UNCHANGED nonAggVars
    /\ UNCHANGED out_headers
    /\ UNCHANGED <<use_parallel, apc, batch_i, sorted_batches, final_df,
                   out_exists, out_rows, start_idx, agg_result>>

\* agg_daily_csv.py:191-202: aggregate_daily_csv is called for the date.
AggCall ==
    /\ apc = "setup"
    /\ use_parallel' \in BOOLEAN
    /\ apc' = "start"
    /\ UNCHANGED nonAggVars
    /\ UNCHANGED out_headers
    /\ UNCHANGED <<csv_files, batch_i, sorted_batches, final_df, out_exists,
                   out_rows, start_idx, agg_result>>

\* agg_daily_csv.py:209-231 and 319-321: no file, return False; more files
\* than BATCH_SIZE and use_parallel, call parallel_batch_csv_reader, a name
\* defined nowhere: the NameError is caught at line 319 and the function
\* returns False; otherwise read the batches with batch_csv_reader.
AggStart ==
    /\ apc = "start"
    /\ IF Len(csv_files) = 0
          THEN apc' = "done" /\ agg_result' = FALSE
          ELSE IF use_parallel /\ Len(csv_files) > BATCH_SIZE
                  THEN apc' = "done" /\ agg_result' = FALSE
                  ELSE apc' = "read" /\ agg_result' = agg_result
    /\ UNCHANGED nonAggVars
    /\ UNCHANGED out_headers
    /\ UNCHANGED <<csv_files, use_parallel, batch_i, sorted_batches, final_df,
                   out_exists, out_rows, start_idx>>

\* agg_daily_csv.py:73-95 and 233-235: one turn of batch_csv_reader's loop
\* and of the loop that consumes it.
AggReadBatch ==
    /\ apc = "read"
    /\ batch_i < Len(csv_files)
    /\ LET batch_dataframes ==
               BatchDataframes(batch_i + 1, Min(batch_i + BATCH_SIZE, Len(csv_files)))
       IN  sorted_batches' =
               IF batch_dataframes # <<>>
                  THEN Append(sorted_batches, SortValues(Concat(batch_dataframes)))
                  ELSE sorted_batches
    /\ batch_i' = batch_i + BATCH_SIZE
    /\ UNCHANGED nonAggVars
    /\ UNCHANGED out_headers
    /\ UNCHANGED <<csv_files, use_parallel, apc, final_df, out_exists, out_rows,
                   start_idx, agg_result>>

\* agg_daily_csv.py:239-254: the reader is exhausted; fail without a valid
\* batch, else merge the sorted batches.
AggMerge ==
    /\ apc = "read"
    /\ batch_i >= Len(csv_files)
    /\ IF sorted_batches = <<>>
          THEN /\ apc' = "done" /\ agg_result' = FALSE
               /\ final_df' = final_df
          ELSE /\ final_df' = merge_sorted_dataframes(sorted_batches)
               /\ apc' = "verify" /\ agg_result' = agg_result
    /\ UNCHANGED nonAggVars
    /\ UNCHANGED out_headers
    /\ UNCHANGED <<csv_files, use_parallel, batch_i, sorted_batches, out_exists,
                   out_rows, start_idx>>

\* agg_daily_csv.py:257-268: re-sort when the frame is not monotonic, then
\* process_final_dataframe (which adds and reorders columns and leaves the
\* rows as they are).
AggVerifySort ==
    /\ apc = "verify"
    /\ final_df' = IF ~IsMonotonicIncreasing(final_df) THEN SortValues(final_df)
                                                      ELSE final_df
    /\ apc' = "write"
    /\ UNCHANGED nonAggVars
    /\ UNCHANGED out_headers
    /\ UNCHANGED <<csv_files, use_parallel, batch_i, sorted_batches, out_exists,
                   out_rows, start_idx, agg_result>>

\* agg_daily_csv.py:274-278, 317: at most CHUNK_SIZE rows, one to_csv call.
AggWriteWhole ==
    /\ apc = "write"
    /\ Len(final_df) <= CHUNK_SIZE
    /\ out_exists' = TRUE
    /\ out_rows' = final_df
    /\ out_headers' = <<0>>
    /\ apc' = "done"
    /\ agg_result' = TRUE
    /\ UNCHANGED nonAggVars
    /\ UNCHANGED <<csv_files, use_parallel, batch_i, sorted_batches, final_df,
                   start_idx>>

\* agg_daily_csv.py:183: header=not header_written
HeaderWithEveryChunk(header_written) == TRUE
HeaderWanted(header_written) == ~header_written

\* agg_daily_csv.py:166-188, 274-275, 317: write_chunked_csv, one chunk per
\* step: the first chunk creates the file with the header, the others append.
\* header_written is False in the first turn of the loop only.
AggWriteChunk ==
    /\ apc = "write"
    /\ Len(final_df) > CHUNK_SIZE
    /\ start_idx < Len(final_df)
    /\ LET end_idx == Min(start_idx + CHUNK_SIZE, Len(final_df))
           chunk_df == SubSeq(final_df, start_idx + 1, end_idx)
           header_written == start_idx > 0
       IN  /\ out_rows' = IF out_exists THEN out_rows \o chunk_df ELSE chunk_df
           /\ out_headers' = (IF header_written THEN out_headers ELSE <<>>)
                                \o (IF HeaderWanted(header_written)
                                       THEN <<IF header_written THEN Len(out_rows) ELSE 0>>
                                       ELSE <<>>)
           /\ out_exists' = TRUE
           /\ start_idx' = start_idx + CHUNK_SIZE
           /\ IF start_idx + CHUNK_SIZE < Len(final_df)
                 THEN apc' = apc /\ agg_result' = agg_result
                 ELSE apc' = "done" /\ agg_result' = TRUE
    /\ UNCHANGED nonAggVars
    /\ UNCHANGED <<csv_files, use_parallel, batch_i, sorted_batches, final_df>>

AggNext ==
    \/ CsvFileAppears
    \/ AggCall
    \/ AggStart
    \/ AggReadBatch
    \/ AggMerge
    \/ AggVerifySort
    \/ AggWriteWhole
    \/ AggWriteChunk

SpecAggregate == AggInit /\ [][AggNext]_vars

\* The rows of the input files whose abs_timestamp is present and numeric,
\* file by file in directory order.
RECURSIVE ValidInputRows(_)
ValidInputRows(f) ==
    IF f > Len(csv_files) THEN <<>>
    ELSE SelectSeq(FrameOf(f), LAMBDA r : csv_files[f].kind = "data" /\ r.ts.kind = "num")
         \o ValidInputRows(f + 1)

\* The multiset of the elements of a sequence.
BagOfSeq(s) == [x \in Range(s) |-> Cardinality({i \in DOMAIN s : s[i] = x})]

(***************************************************************************)
(* C3: the daily aggregate is non-decreasing in abs_timestamp over the     *)
(* whole output, for any files in any order and any batching (also while   *)
(* it is being written chunk by chunk).                                    *)
(***************************************************************************)
C3_AggregateNonDecreasing ==
    \A i \in 1..(Len(out_rows) - 1) : out_rows[i].ts.v <= out_rows[i + 1].ts.v

\* A finished aggregate merged from two batches in which the rows of one
\* file are interleaved with a row of another file.
C3_WitnessInterleaved ==
    /\ apc = "done" /\ agg_result = TRUE
    /\ Len(sorted_batches) >= 2
    /\ \E i, j, k \in DOMAIN out_rows :
          /\ i < j /\ j < k
          /\ out_rows[i].src[1] = out_rows[k].src[1]
          /\ out_rows[i].src[1] # out_rows[j].src[1]

(***************************************************************************)
(* C4: the multiset of rows of the daily aggregate equals the union over   *)
(* all input CSVs of the rows whose abs_timestamp is present and numeric   *)
(* (no valid row lost or duplicated, every other row dropped).             *)
(***************************************************************************)
C4_AggregateIsUnionOfValidRows ==
    (apc = "done" /\ agg_result = TRUE) =>
        BagOfSeq(out_rows) = BagOfSeq(ValidInputRows(1))

\* A finished aggregate merged from two batches, with an input row dropped.
C4_WitnessDroppedAndMerged ==
    /\ apc = "done" /\ agg_result = TRUE
    /\ Len(sorted_batches) >= 2
    /\ Len(out_rows) < TotalCsvRows

(***************************************************************************)
(* C5: for a directory that holds at least one readable CSV with a numeric *)
(* abs_timestamp, aggregate_daily_csv called with its default arguments    *)
(* (use_parallel = True) returns True and writes the daily CSV, whatever   *)
(* the number of input files.                                              *)
(***************************************************************************)
C5_DefaultCallSucceeds ==
    (/\ apc = "done"
     /\ use_parallel
     /\ \E f \in DOMAIN csv_files : \E i \in DOMAIN csv_files[f].cells :
           csv_files[f].kind = "data" /\ csv_files[f].cells[i].kind = "num")
    => (agg_result = TRUE /\ out_exists)

(***************************************************************************)
(* ========================== trace decoders ============================= *)
(*                                                                         *)
(* MaxTraceLen bounds the number of entries of the document's trace.       *)
(***************************************************************************)
MaxTraceLen == 2

\* JSON values, as tagged records so that values of different types can be
\* compared: null, a number, a string (numbered; Str(0) is ""), an object
\* with the given keys, and the value an aircraft_metadata object holds
\* under a key.
Null == [t |-> "null", n |-> 0, k |-> {}]
Num(n) == [t |-> "num", n |-> n, k |-> {}]
Str(n) == [t |-> "str", n |-> n, k |-> {}]
Obj(keys) == [t |-> "obj", n |-> 0, k |-> keys]
MetaValue(key) == [t |-> "val", n |-> 0, k |-> {key}]
\* orjson.dumps(value).decode(): the object as one JSON string.
JsonString(v) == [t |-> "json", n |-> 0, k |-> v.k]
\* datetime.fromtimestamp(ts, tz=utc).isoformat()
IsoDatetime(ts) == [t |-> "iso", n |-> ts, k |-> {}]

\* A python dict is a function from its keys; dict.update(other).
EmptyDict == [c \in {} |-> Null]
Update(row, other) ==
    [c \in DOMAIN row \cup DOMAIN other |-> IF c \in DOMAIN other THEN other[c] ELSE row[c]]

\* The positional schema (scripts/json_to_csv.py:17-32; the same list in
\* trace_processor.py:15-30, trace_format.py:4-19 and
\* json_to_csv_streaming.py:131-146).
TRACE_FIELD_NAMES ==
    << "seconds_after_timestamp", "latitude", "longitude", "altitude_ft",
       "ground_speed_kts", "track_deg", "flags_bitfield", "vertical_rate_fpm",
       "aircraft_metadata", "source_type", "geometric_altitude_ft",
       "geometric_vertical_rate_fpm", "indicated_airspeed_kts", "roll_angle_deg" >>

\* The names process_single_file gives to the positions
\* (data_eng/json_to_csv.py:155-167; position 8 is handled apart).
SINGLE_FILE_FIELD_NAMES ==
    [TRACE_FIELD_NAMES EXCEPT ![1] = "seconds_offset"]

\* json_to_csv_streaming.py:56-65
TOP_LEVEL_KEYS == {"icao", "timestamp", "r", "t", "desc", "dbFlags", "year", "ownOp"}

\* Position (1-based) of a column in a positional schema.
FieldIndex(names, c) == CHOOSE i \in DOMAIN names : names[i] = c

\* A trace entry: an array of values, or something that is no array: a
\* number (len() raises TypeError), a two-character string, or a non-empty
\* object (len() is its number of keys, entry[0] raises KeyError).
EntryLens == {0, 1, 8, 9, 13, 14}
Offsets == {0, 5}
MetaChoices == {Null, Obj({"alt", "flight"})}
ArrayEntry(len, off, meta) ==
    [kind |-> "array",
     vals |-> [i \in 1..len |-> IF i = 1 THEN Num(off)
                                ELSE IF i = 9 THEN meta ELSE Num(100 + i - 1)]]
NonArrayEntries ==
    { [kind |-> "number", vals |-> <<>>],
      [kind |-> "string", vals |-> <<Str(10), Str(11)>>],
      [kind |-> "object", vals |-> <<>>] }
Entries ==
    {ArrayEntry(l, o, m) : l \in EntryLens, o \in Offsets, m \in MetaChoices}
    \cup NonArrayEntries

\* The documents: icao and r are always there, timestamp and trace may be
\* missing.
TopValue(key) ==
    IF key = "icao" THEN Str(1) ELSE IF key = "r" THEN Str(2) ELSE Num(1000)
Documents ==
    {[keys |-> ks, trace |-> tr] :
        ks \in {{"icao", "r", "timestamp", "trace"}, {"icao", "r", "trace"}},
        tr \in UNION {[1..n -> Entries] : n \in 0..MaxTraceLen}}
    \cup {[keys |-> {"icao", "r", "timestamp"}, trace |-> <<>>]}

\* data.get(key, default); data.get("trace", [])
DataGet(key, default) == IF key \in doc.keys THEN TopValue(key) ELSE default
TraceOrEmpty == IF "trace" \in doc.keys THEN doc.trace ELSE <<>>

\* len(trace_entry) where it does not raise.
PyLen(e) == IF e.kind = "object" THEN 1 ELSE Len(e.vals)

\* seconds_offset = trace_entry[0] if len(trace_entry) > 0 else 0
SecondsOffsetOffByOne(e) == IF Len(e.vals) > 1 THEN e.vals[2] ELSE Num(0)
SecondsOffset(e) == IF Len(e.vals) > 0 THEN e.vals[1] ELSE Num(0)

\* The columns of a positional schema, but for the skipped ones, read by
\* position: the value when the entry is long enough, else None.
PositionalRow(names, skipped, e) ==
    [c \in Range(names) \ skipped |->
        IF FieldIndex(names, c) <= Len(e.vals) THEN e.vals[FieldIndex(names, c)] ELSE Null]

\* flatten_aircraft_metadata (scripts/json_to_csv.py:35-46), the same as
\* flatten_metadata of scripts/utils.py:55-66 and, for null and object
\* values, of data_eng/json_to_csv.py:90-111: one prefixed column per key.
PrefixedColumns(prefix, metadata) ==
    IF metadata.t = "obj"
       THEN [c \in {prefix \o key : key \in metadata.k} |->
                MetaValue(CHOOSE key \in metadata.k : prefix \o key = c)]
       ELSE EmptyDict
flatten_aircraft_metadata(metadata) == PrefixedColumns("meta_", metadata)

\* ---- scripts/json_to_csv.py convert_json_to_csv, lines 64-100, and
\* ---- scripts/trace_processor.py json_to_dataframe, lines 76-111 (the same
\* ---- statements): the row of one list entry.
ScriptRow(e) ==
    LET positional == PositionalRow(TRACE_FIELD_NAMES, {"aircraft_metadata"}, e)
        flattened_meta == IF include_metadata /\ Len(e.vals) >= 9
                             THEN flatten_aircraft_metadata(e.vals[9])
                             ELSE EmptyDict
        metadata == [key \in doc.keys \ {"trace"} |-> TopValue(key)]
        base_timestamp == DataGet("timestamp", Num(0))
    IN  Update(Update(Update(positional, flattened_meta), metadata),
               [c \in {"abs_timestamp"} |-> Num(base_timestamp.n + SecondsOffset(e).n)])

\* The loop over data["trace"]: an entry that is no list is skipped.
RECURSIVE ScriptRows(_)
ScriptRows(trace) ==
    IF trace = <<>> THEN <<>>
    ELSE (IF Head(trace).kind = "array" THEN <<ScriptRow(Head(trace))>> ELSE <<>>)
         \o ScriptRows(Tail(trace))

\* convert_json_to_csv (scripts/json_to_csv.py:49-149) and
\* TraceProcessor.process_single_trace (trace_processor.py:50-71, 167-195):
\* False without a trace key, with an empty trace or with no row.
ScriptResult ==
    IF "trace" \notin doc.keys \/ doc.trace = <<>> \/ ScriptRows(doc.trace) = <<>>
       THEN [ok |-> FALSE, rows |-> <<>>]
       ELSE [ok |-> TRUE, rows |-> ScriptRows(doc.trace)]

\* ---- data_processing/trace_format.py flatten_trace_entry, lines 22-48,
\* ---- called by processor.py:30-44 with six top-level keys.
\* It raises on a number (len) and on an object (entry[0]).
FormatRaises(e) == e.kind \in {"number", "object"}
FormatRow(e) ==
    LET positional == PositionalRow(TRACE_FIELD_NAMES,
                          IF include_metadata THEN {} ELSE {"aircraft_metadata"}, e)
        meta_dict == IF Len(e.vals) > 8 THEN e.vals[9] ELSE Null
        expanded == IF include_metadata
                       THEN Update(positional, PrefixedColumns("metadata.", meta_dict))
                       ELSE positional
        popped == [c \in DOMAIN expanded \ (IF include_metadata THEN {"aircraft_metadata"} ELSE {})
                      |-> expanded[c]]
        top_level_metadata ==
            [key \in {"icao", "timestamp", "r", "t", "desc", "dbFlags"} |-> DataGet(key, Null)]
    IN  Update(popped, top_level_metadata)

\* processor.py:39-48 with writer.py:14-23: the rows written before the
\* first entry that raises, in flatten_trace_entry or in write_row (a
\* DictWriter raises ValueError on a key that the header, the keys of the
\* first row written, does not hold).
RECURSIVE FormatRows(_, _)
FormatRows(trace, fieldnames) ==
    IF trace = <<>> THEN [ok |-> TRUE, rows |-> <<>>]
    ELSE IF FormatRaises(Head(trace)) THEN [ok |-> FALSE, rows |-> <<>>]
    ELSE LET row == FormatRow(Head(trace))
             header == IF fieldnames = {} THEN DOMAIN row ELSE fieldnames
         IN  IF ~(DOMAIN row \subseteq header) THEN [ok |-> FALSE, rows |-> <<>>]
             ELSE LET rest == FormatRows(Tail(trace), header)
                  IN  [ok |-> rest.ok, rows |-> <<row>> \o rest.rows]
FormatResult == FormatRows(TraceOrEmpty, {})

\* ---- data_eng/json_to_csv_streaming.py flatten_trace_entry, lines 96-159.
\* It raises on a number (len) and on an object (entry[0]); the string
\* gets a row of its characters.
StreamingRaises(e) == e.kind \in {"number", "object"}
StreamingRow(e) ==
    LET file_metadata == [key \in TOP_LEVEL_KEYS |-> DataGet(key, Null)]
        base_timestamp == file_metadata["timestamp"]
        seconds_offset == SecondsOffset(e)
        datetime_utc == IF base_timestamp.t = "num" /\ seconds_offset.t = "num"
                           THEN IsoDatetime(base_timestamp.n + seconds_offset.n)
                           ELSE Null
        positional == PositionalRow(TRACE_FIELD_NAMES, {}, e)
        stringified ==
            [c \in DOMAIN positional |->
                IF c = "aircraft_metadata" /\ positional[c].t = "obj"
                   THEN JsonString(positional[c]) ELSE positional[c]]
    IN  Update(Update(file_metadata, [c \in {"datetime_utc"} |-> datetime_utc]),
               stringified)

\* process_file_streaming, lines 176-196: the rows made before the first
\* entry that raises; the exception is logged and the rows are returned.
RECURSIVE StreamingRows(_)
StreamingRows(trace) ==
    IF trace = <<>> \/ StreamingRaises(Head(trace)) THEN <<>>
    ELSE <<StreamingRow(Head(trace))>> \o StreamingRows(Tail(trace))
StreamingResult == [ok |-> TRUE, rows |-> StreamingRows(TraceOrEmpty)]

\* ---- data_eng/json_to_csv.py process_single_file, lines 128-186.
\* len() raises on a number: the except clause returns [].
SingleFileRaises(trace) == \E i \in DOMAIN trace : trace[i].kind = "number"
SingleFileRow(e) ==
    LET top == [c \in {"icao", "base_timestamp", "r", "t", "desc", "dbFlags"} |->
                   IF c = "icao" THEN DataGet("icao", Str(0))
                   ELSE IF c = "base_timestamp" THEN DataGet("timestamp", Num(0))
                   ELSE IF c = "dbFlags" THEN DataGet(c, Num(0))
                   ELSE DataGet(c, Str(0))]
        positional == PositionalRow(SINGLE_FILE_FIELD_NAMES, {"aircraft_metadata"},
                                    [e EXCEPT !.vals = SubSeq(e.vals, 1, 14)])
        flattened_meta == IF include_metadata
                             THEN PrefixedColumns("meta_", e.vals[9])
                             ELSE EmptyDict
    IN  Update(Update(top, positional), flattened_meta)
RECURSIVE SingleFileRows(_)
SingleFileRows(trace) ==
    IF trace = <<>> THEN <<>>
    ELSE (IF PyLen(Head(trace)) < 14 THEN <<>> ELSE <<SingleFileRow(Head(trace))>>)
         \o SingleFileRows(Tail(trace))
SingleFileResult ==
    IF SingleFileRaises(TraceOrEmpty) THEN [ok |-> FALSE, rows |-> <<>>]
    ELSE [ok |-> TRUE, rows |-> SingleFileRows(TraceOrEmpty)]

DecInit ==
    /\ ConvIdle /\ AggIdle /\ ReorderIdle /\ BatchIdle /\ WriterIdle /\ FilterIdle /\ PipelineIdle /\ LockIdle
    /\ doc \in Documents
    /\ include_metadata \in BOOLEAN
    /\ decoder = "none"
    /\ dec_rows = <<>>
    /\ dec_ok = TRUE
    /\ all_fieldnames = <<>>
    /\ csv_lines = <<>>
    /\ write_raised = FALSE

\* scripts/json_to_csv.py convert_json_to_csv on the document.
RunConvertJsonToCsv ==
    /\ decoder = "none"
    /\ decoder' = "convert_json_to_csv"
    /\ dec_rows' = ScriptResult.rows
    /\ dec_ok' = ScriptResult.ok
    /\ UNCHANGED <<doc, include_metadata, all_fieldnames, csv_lines, write_raised>>
    /\ UNCHANGED nonDecVars

\* scripts/trace_processor.py load_json_data and json_to_dataframe on the document.
RunProcessSingleTrace ==
    /\ decoder = "none"
    /\ decoder' = "process_single_trace"
    /\ dec_rows' = ScriptResult.rows
    /\ dec_ok' = ScriptResult.ok
    /\ UNCHANGED <<doc, include_metadata, all_fieldnames, csv_lines, write_raised>>
    /\ UNCHANGED nonDecVars

\* data_processing/processor.py flatten_all_json_to_csv on the one document.
RunFlattenAllJsonToCsv ==
    /\ decoder = "none"
    /\ decoder' = "flatten_all_json_to_csv"
    /\ dec_rows' = FormatResult.rows
    /\ dec_ok' = FormatResult.ok
    /\ UNCHANGED <<doc, include_metadata, all_fieldnames, csv_lines, write_raised>>
    /\ UNCHANGED nonDecVars

\* data_eng/json_to_csv_streaming.py process_file_streaming on the document.
RunProcessFileStreaming ==
    /\ decoder = "none"
    /\ decoder' = "process_file_streaming"
    /\ dec_rows' = StreamingResult.rows
    /\ dec_ok' = StreamingResult.ok
    /\ UNCHANGED <<doc, include_metadata, all_fieldnames, csv_lines, write_raised>>
    /\ UNCHANGED nonDecVars

\* data_eng/json_to_csv.py process_single_file on the document.
RunProcessSingleFile ==
    /\ decoder = "none"
    /\ decoder' = "process_single_file"
    /\ dec_rows' = SingleFileResult.rows
    /\ dec_ok' = SingleFileResult.ok
    /\ UNCHANGED <<doc, include_metadata, all_fieldnames, csv_lines, write_raised>>
    /\ UNCHANGED nonDecVars

\* ---- data_eng/json_to_csv.py: the static schema of convert_date_to_csv
\* ---- and ThreadSafeCSVWriter.write_rows.
\* Lines 41, 44-58.
TOP_LEVEL_FIELDS == <<"icao", "base_timestamp", "r", "t", "desc", "dbFlags">>
CORE_TRACE_FIELDS ==
    << "seconds_offset", "latitude", "longitude", "altitude_ft",
       "ground_speed_kts", "track_deg", "flags_bitfield", "vertical_rate_fpm",
       "source_type", "geometric_altitude_ft", "geometric_vertical_rate_fpm",
       "indicated_airspeed_kts", "roll_angle_deg" >>

\* sorted(metadata_fields), line 320: the metadata columns that occur, in
\* alphabetical order.
MetaColumnsSorted == <<"meta_alt", "meta_flight", "meta_squawk">>
Sorted(fields) == SelectSeq(MetaColumnsSorted, LAMBDA c : c \in fields)

\* The metadata columns that the other sampled files of the date may add.
OtherFilesFields == {"meta_squawk"}

\* discover_metadata_fields (lines 232-272) on the document: the first
\* SAMPLED_ENTRIES entries of the trace are looked at; len() of a number
\* raises, which ends the sampling of the file (the fields found so far
\* stay in the set).
SAMPLED_ENTRIES == 1
RECURSIVE SampledFields(_)
SampledFields(trace_data) ==
    IF trace_data = <<>> \/ Head(trace_data).kind = "number" THEN {}
    ELSE LET trace_entry == Head(trace_data)
             found == IF PyLen(trace_entry) > 8 /\ trace_entry.vals[9].t = "obj"
                         THEN {"meta_" \o key : key \in trace_entry.vals[9].k}
                         ELSE {}
         IN  found \cup SampledFields(Tail(trace_data))
discover_metadata_fields ==
    SampledFields(SubSeq(TraceOrEmpty, 1, Min(SAMPLED_ENTRIES, Len(TraceOrEmpty))))

\* Line 85: clean_row = {field: row.get(field, "") for field in fieldnames}
RowAsItIs(row, fieldnames) == row
clean_row(row, fieldnames) ==
    [field \in Range(fieldnames) |-> IF field \in DOMAIN row THEN row[field] ELSE Str(0)]

\* csv.DictWriter.writerow (line 86) with the default extrasaction: a key
\* outside fieldnames raises ValueError; else one cell per field, the empty
\* string for a missing key and for None.
WriterowRaisesOn(rowdict, fieldnames) == ~(DOMAIN rowdict \subseteq Range(fieldnames))
CsvCell(value) == IF value = Null THEN Str(0) ELSE value
WrittenLine(rowdict, fieldnames) ==
    [i \in DOMAIN fieldnames |->
        IF fieldnames[i] \in DOMAIN rowdict THEN CsvCell(rowdict[fieldnames[i]]) ELSE Str(0)]

\* The loop of write_rows (lines 83-86): the lines written until a writerow
\* raises.
RECURSIVE LinesWritten(_, _)
LinesWritten(rows, fieldnames) ==
    IF rows = <<>> \/ WriterowRaisesOn(clean_row(Head(rows), fieldnames), fieldnames)
       THEN <<>>
       ELSE <<WrittenLine(clean_row(Head(rows), fieldnames), fieldnames)>>
            \o LinesWritten(Tail(rows), fieldnames)

\* convert_date_to_csv, lines 313-323 and 376/392: the metadata columns are
\* discovered from the sampled files when include_metadata is set, the
\* writer is built with TOP_LEVEL_FIELDS + CORE_TRACE_FIELDS + the sorted
\* metadata columns, and the rows of the document are written through
\* write_rows.
WriteStaticSchema(other_fields) ==
    /\ decoder = "process_single_file"
    /\ all_fieldnames = <<>>
    /\ LET metadata_fields == IF include_metadata
                                 THEN discover_metadata_fields \cup other_fields
                                 ELSE {}
           fieldnames == TOP_LEVEL_FIELDS \o CORE_TRACE_FIELDS \o Sorted(metadata_fields)
           lines == LinesWritten(dec_rows, fieldnames)
       IN  /\ all_fieldnames' = fieldnames
           /\ csv_lines' = lines
           /\ write_raised' = (Len(lines) < Len(dec_rows))
    /\ UNCHANGED <<doc, include_metadata, decoder, dec_rows, dec_ok>>
    /\ UNCHANGED nonDecVars

DecNext ==
    \/ \E other_fields \in SUBSET OtherFilesFields : WriteStaticSchema(other_fields)
    \/ RunConvertJsonToCsv
    \/ RunProcessSingleTrace
    \/ RunFlattenAllJsonToCsv
    \/ RunProcessFileStreaming
    \/ RunProcessSingleFile

SpecDecode == DecInit /\ [][DecNext]_vars

(***************************************************************************)
(* ========================== column ordering ============================ *)
(*                                                                         *)
(* MaxColumns bounds the number of columns of the frame as it arrives.     *)
(***************************************************************************)
MaxColumns == 5

\* The column names a frame is made of: the priority and ending columns
\* and two others.
ColumnNames ==
    {"datetime", "abs_timestamp", "icao", "timestamp", "seconds_after_timestamp",
     "latitude", "r"}

priority_columns == <<"datetime", "abs_timestamp", "icao">>
ending_columns == <<"timestamp", "seconds_after_timestamp">>

\* df["datetime"] = ...: an existing column keeps its place, a new one is
\* appended.  all_columns = list(df.columns) is read after it.
all_columns(columns) ==
    IF "datetime" \in Range(columns) THEN columns ELSE Append(columns, "datetime")

\* for col in names: if col in all_columns: ordered_columns.append(col)
ColumnsThatExist(names, all) ==
    LET Exists(col) == col \in Range(all) IN SelectSeq(names, Exists)

\* [col for col in all_columns
\*      if col not in priority_columns and col not in ending_columns]
MiddleKeepsEnding(all) ==
    LET NotPriority(col) == col \notin Range(priority_columns)
    IN  SelectSeq(all, NotPriority)
middle_columns(all) ==
    LET IsMiddle(col) == col \notin Range(priority_columns) /\ col \notin Range(ending_columns)
    IN  SelectSeq(all, IsMiddle)

\* ordered_columns as the three steps build it; df.reindex(columns=...)
\* returns the frame with exactly these columns in this order.
ordered_columns(columns) ==
    LET all == all_columns(columns)
    IN  ColumnsThatExist(priority_columns, all)
            \o middle_columns(all)
            \o ColumnsThatExist(ending_columns, all)

ReorderInit ==
    /\ ConvIdle /\ AggIdle /\ DecIdle /\ BatchIdle /\ WriterIdle /\ FilterIdle /\ PipelineIdle /\ LockIdle
    /\ df_columns = <<>>
    /\ reordered_by = "none"
    /\ out_columns = <<>>

\* The frame is built: one more column arrives (pd.DataFrame(rows) in
\* json_to_dataframe, pd.concat in merge_sorted_dataframes).
ColumnArrives ==
    /\ reordered_by = "none"
    /\ Len(df_columns) < MaxColumns
    /\ \E col \in ColumnNames \ Range(df_columns) :
          df_columns' = Append(df_columns, col)
    /\ UNCHANGED <<reordered_by, out_columns>>
    /\ UNCHANGED nonReorderVars

\* TraceProcessor.standardize_columns, called by process_single_trace on a
\* frame that is not empty (an empty one returns before the call).
standardize_columns ==
    /\ reordered_by = "none"
    /\ df_columns # <<>>
    /\ reordered_by' = "standardize_columns"
    /\ out_columns' = ordered_columns(df_columns)
    /\ UNCHANGED df_columns
    /\ UNCHANGED nonReorderVars

\* process_final_dataframe, called by aggregate_daily_csv on the merged
\* frame.
process_final_dataframe ==
    /\ reordered_by = "none"
    /\ df_columns # <<>>
    /\ reordered_by' = "process_final_dataframe"
    /\ out_columns' = ordered_columns(df_columns)
    /\ UNCHANGED df_columns
    /\ UNCHANGED nonReorderVars

ReorderNext ==
    \/ ColumnArrives
    \/ standardize_columns
    \/ process_final_dataframe

SpecReorder == ReorderInit /\ [][ReorderNext]_vars

(***************************************************************************)
(* ========================= batch_json_to_csv =========================== *)
(*                                                                         *)
(* src/scripts/batch_json_to_csv.py: the per-file conversion stage, run    *)
(* sequentially or on a thread pool.  MaxBatchFiles bounds the number of   *)
(* JSON files of the date, max_workers is the size of the pool (the        *)
(* parameter of batch_convert_parallel, 4 by default, scaled down).        *)
(***************************************************************************)
MaxBatchFiles == 3
max_workers == 2

\* What a JSON file holds, as far as convert_json_to_csv tells the cases
\* apart (scripts/json_to_csv.py:52-62, 102-104, 144-149): a trace with
\* rows, no trace key, an empty trace, a trace without any list entry, or
\* text that is no JSON.  has_csv: a non-empty CSV of the file exists from
\* an earlier run (only a file with rows gets one).
DocKinds == {"rows", "notrace", "emptytrace", "norows", "invalid"}
TraceFileStates ==
    {[doc |-> k, has_csv |-> FALSE] : k \in DocKinds}
    \cup {[doc |-> "rows", has_csv |-> TRUE]}

\* csv_already_exists (lines 32-44): the CSV is there and not empty.
csv_already_exists(f) == trace_files[f].has_csv \/ f \in csv_written

\* convert_json_to_csv (scripts/json_to_csv.py:49-149): True exactly when
\* the document gave at least one row and the CSV was written; every
\* exception is caught inside and gives False.
ConvertAlwaysSucceeds(f) == TRUE
convert_json_to_csv(f) == trace_files[f].doc = "rows"

\* convert_single_file (lines 47-86): the success flag it returns and the
\* CSV files after it.
SingleFileSkipped(f) == ~force /\ csv_already_exists(f)
SingleFileSuccess(f) == SingleFileSkipped(f) \/ convert_json_to_csv(f)
SingleFileWritten(f) ==
    IF ~SingleFileSkipped(f) /\ convert_json_to_csv(f)
       THEN csv_written \cup {f} ELSE csv_written

\* [f for f in json_files if not csv_already_exists(f, csv_dir)]
NotYetConverted ==
    LET Missing(f) == ~csv_already_exists(f)
    IN  SelectSeq([f \in 1..Len(trace_files) |-> f], Missing)

\* The file a task of the pool is submitted for: one task per element of
\* json_files (lines 151-156).
TaskFile(t) == todo_files[t]

\* The tasks there can be, and those a worker of the pool is running.
Tasks == 1..MaxBatchFiles
Running == {t \in DOMAIN task_state : task_state[t] = "running"}

BatchInit ==
    /\ ConvIdle /\ AggIdle /\ DecIdle /\ ReorderIdle /\ WriterIdle /\ FilterIdle /\ PipelineIdle /\ LockIdle
    /\ trace_files \in UNION {[1..n -> TraceFileStates] : n \in 0..MaxBatchFiles}
    /\ force \in BOOLEAN
    /\ parallel \in BOOLEAN
    /\ bpc = "discover"
    /\ todo_files = <<>>
    /\ submitted = 0
    /\ task_state = <<>>
    /\ task_success = <<>>
    /\ successful = 0
    /\ failed = 0
    /\ durations = 0
    /\ convert_calls = [f \in 1..Len(trace_files) |-> 0]
    /\ csv_written = {}
    /\ stage_result = "none"
    /\ run_no = 1

\* batch_json_to_csv, lines 207-248: find the files (False when there is
\* none), leave out the converted ones unless forced (True when none is
\* left), choose the parallel or the sequential conversion.
BatchDiscover ==
    /\ bpc = "discover"
    /\ LET json_found == [f \in 1..Len(trace_files) |-> f]
           remaining == IF force THEN json_found ELSE NotYetConverted
       IN  IF json_found = <<>>
              THEN /\ stage_result' = "False" /\ bpc' = "done"
                   /\ UNCHANGED <<todo_files, task_state, task_success>>
           ELSE IF remaining = <<>>
              THEN /\ stage_result' = "True" /\ bpc' = "done"
                   /\ UNCHANGED <<todo_files, task_state, task_success>>
           ELSE /\ todo_files' = remaining
                /\ task_state' = [t \in DOMAIN remaining |-> "new"]
                /\ task_success' = [t \in DOMAIN remaining |-> FALSE]
                /\ bpc' = IF parallel /\ Len(remaining) > 1 THEN "parallel" ELSE "sequential"
                /\ UNCHANGED stage_result
    /\ UNCHANGED <<trace_files, force, parallel, submitted, successful, failed,
                   durations, convert_calls, csv_written>>
    /\ UNCHANGED run_no
    /\ UNCHANGED nonBatchVars

\* batch_convert_sequential, lines 105-114: one pass of the loop.
SequentialConvert ==
    /\ bpc = "sequential"
    /\ submitted < Len(todo_files)
    /\ LET f == todo_files[submitted + 1] IN
         /\ convert_calls' = [convert_calls EXCEPT ![f] = @ + 1]
         /\ csv_written' = SingleFileWritten(f)
         /\ durations' = durations + 1
         /\ IF SingleFileSuccess(f)
               THEN successful' = successful + 1 /\ failed' = failed
               ELSE failed' = failed + 1 /\ successful' = successful
    /\ submitted' = submitted + 1
    /\ UNCHANGED <<trace_files, force, parallel, bpc, todo_files, task_state,
                   task_success, stage_result>>
    /\ UNCHANGED run_no
    /\ UNCHANGED nonBatchVars

\* batch_convert_sequential, line 130: the loop is over, return.
SequentialReturn ==
    /\ bpc = "sequential"
    /\ submitted = Len(todo_files)
    /\ bpc' = "summary"
    /\ UNCHANGED <<trace_files, force, parallel, todo_files, submitted,
                   task_state, task_success, successful, failed, durations,
                   convert_calls, csv_written, stage_result>>
    /\ UNCHANGED run_no
    /\ UNCHANGED nonBatchVars

\* batch_convert_parallel, lines 151-156: executor.submit for the next
\* element of json_files; the pool may already be running earlier tasks.
PoolSubmit ==
    /\ bpc = "parallel"
    /\ submitted < Len(todo_files)
    /\ task_state' = [task_state EXCEPT ![submitted + 1] = "queued"]
    /\ submitted' = submitted + 1
    /\ UNCHANGED <<trace_files, force, parallel, bpc, todo_files, task_success,
                   successful, failed, durations, convert_calls, csv_written,
                   stage_result>>
    /\ UNCHANGED run_no
    /\ UNCHANGED nonBatchVars

\* ThreadPoolExecutor: a free worker takes the oldest queued task and calls
\* convert_single_file for its file.
TaskStart(t) ==
    /\ t \in DOMAIN task_state
    /\ task_state[t] = "queued"
    /\ \A u \in 1..(t - 1) : task_state[u] # "queued"
    /\ Cardinality(Running) < max_workers
    /\ task_state' = [task_state EXCEPT ![t] = "running"]
    /\ convert_calls' = [convert_calls EXCEPT ![TaskFile(t)] = @ + 1]
    /\ UNCHANGED <<trace_files, force, parallel, bpc, todo_files, submitted,
                   task_success, successful, failed, durations, csv_written,
                   stage_result>>
    /\ UNCHANGED run_no
    /\ UNCHANGED nonBatchVars

\* The call of convert_single_file returns and the future is completed
\* with its result.
TaskFinish(t) ==
    /\ t \in DOMAIN task_state
    /\ task_state[t] = "running"
    /\ task_state' = [task_state EXCEPT ![t] = "done"]
    /\ task_success' = [task_success EXCEPT ![t] = SingleFileSuccess(TaskFile(t))]
    /\ csv_written' = SingleFileWritten(TaskFile(t))
    /\ UNCHANGED <<trace_files, force, parallel, bpc, todo_files, submitted,
                   successful, failed, durations, convert_calls, stage_result>>
    /\ UNCHANGED run_no
    /\ UNCHANGED nonBatchVars

\* batch_convert_parallel, lines 161-180: as_completed yields a completed
\* future; its result is counted.
CollectFuture(t) ==
    /\ bpc = "parallel"
    /\ submitted = Len(todo_files)
    /\ t \in DOMAIN task_state
    /\ task_state[t] = "done"
    /\ task_state' = [task_state EXCEPT ![t] = "collected"]
    /\ durations' = durations + 1
    /\ IF task_success[t]
          THEN successful' = successful + 1 /\ failed' = failed
          ELSE failed' = failed + 1 /\ successful' = successful
    /\ UNCHANGED <<trace_files, force, parallel, bpc, todo_files, submitted,
                   task_success, convert_calls, csv_written, stage_result>>
    /\ UNCHANGED run_no
    /\ UNCHANGED nonBatchVars

\* batch_convert_parallel, lines 191-195: as_completed is exhausted, the
\* executor is shut down, return.
ParallelReturn ==
    /\ bpc = "parallel"
    /\ submitted = Len(todo_files)
    /\ \A t \in DOMAIN task_state : task_state[t] = "collected"
    /\ bpc' = "summary"
    /\ UNCHANGED <<trace_files, force, parallel, todo_files, submitted,
                   task_state, task_success, successful, failed, durations,
                   convert_calls, csv_written, stage_result>>
    /\ UNCHANGED run_no
    /\ UNCHANGED nonBatchVars

\* batch_json_to_csv, lines 250-273: log the summary, return failed == 0.
BatchSummary ==
    /\ bpc = "summary"
    /\ stage_result' = IF failed = 0 THEN "True" ELSE "False"
    /\ bpc' = "done"
    /\ UNCHANGED <<trace_files, force, parallel, todo_files, submitted,
                   task_state, task_success, successful, failed, durations,
                   convert_calls, csv_written>>
    /\ UNCHANGED run_no
    /\ UNCHANGED nonBatchVars

\* main is run a second time for the same date and the same traces
\* directory (lines 337-345): the CSV files the first run wrote are on disk,
\* the locals are fresh.
BatchRunAgain ==
    /\ bpc = "done"
    /\ run_no = 1
    /\ run_no' = 2
    /\ trace_files' = [f \in DOMAIN trace_files |->
                          [trace_files[f] EXCEPT !.has_csv = csv_already_exists(f)]]
    /\ force' \in BOOLEAN
    /\ parallel' \in BOOLEAN
    /\ bpc' = "discover"
    /\ todo_files' = <<>>
    /\ submitted' = 0
    /\ task_state' = <<>>
    /\ task_success' = <<>>
    /\ successful' = 0
    /\ failed' = 0
    /\ durations' = 0
    /\ convert_calls' = [f \in DOMAIN trace_files |-> 0]
    /\ csv_written' = {}
    /\ stage_result' = "none"
    /\ UNCHANGED nonBatchVars

BatchNext ==
    \/ BatchDiscover
    \/ SequentialConvert
    \/ SequentialReturn
    \/ PoolSubmit
    \/ \E t \in Tasks : TaskStart(t)
    \/ \E t \in Tasks : TaskFinish(t)
    \/ \E t \in Tasks : CollectFuture(t)
    \/ ParallelReturn
    \/ BatchSummary
    \/ BatchRunAgain

SpecBatch == BatchInit /\ [][BatchNext]_vars

(***************************************************************************)
(* ============================ CSV writers ============================== *)
(*                                                                         *)
(* The three CSV writers, each driven as its client drives it:             *)
(* HourlyCSVWriter by HourlyCSVManager inside the with-block of            *)
(* flatten_all_json_to_hourly_csv, CSVRowWriter by flatten_all_json_to_csv *)
(* and ThreadSafeCSVWriter by convert_date_to_csv.  NumHours stands for    *)
(* the 24 hourly writers of the manager and BUFFER_SIZE for the constant   *)
(* of json_to_csv_streaming.py:24 (5000), both scaled down; MaxWriterRows  *)
(* bounds the rows handed to one writer.  The single-file writers are      *)
(* writer 1.                                                               *)
(***************************************************************************)
NumHours == 2
BUFFER_SIZE == 2
MaxWriterRows == 4

Hours == 1..NumHours
WriterClasses == {"HourlyCSVWriter", "CSVRowWriter", "ThreadSafeCSVWriter"}
Exited == {"exited", "exited_after_error"}

\* n data lines.
RowLines(n) == [i \in 1..n |-> "row"]

\* HourlyCSVWriter._initialize (lines 211-217) and the first write_row of
\* CSVRowWriter (writer.py:14-20): the file is opened for writing and the
\* header written only when that was not done before.
HeaderEveryTime(h) == file_lines[h] \o <<"header">>
LinesAfterInitialize(h) ==
    IF is_initialized[h] THEN file_lines[h] ELSE <<"header">>

\* HourlyCSVWriter.close (lines 237-241) flushes what is left in the buffer
\* before it closes the file.
NoFlushAtClose(h) == 0
RowsFlushedAtClose(h) == IF is_initialized[h] THEN buffer[h] ELSE 0

WriterInit ==
    /\ ConvIdle /\ AggIdle /\ DecIdle /\ ReorderIdle /\ BatchIdle /\ FilterIdle /\ PipelineIdle /\ LockIdle
    /\ writer_class \in WriterClasses
    /\ wmpc = IF writer_class = "ThreadSafeCSVWriter" THEN "new" ELSE "open"
    /\ is_initialized = [h \in Hours |-> FALSE]
    /\ buffer = [h \in Hours |-> 0]
    /\ total_rows_written = [h \in Hours |-> 0]
    /\ row_counts = [h \in Hours |-> 0]
    /\ file_exists = [h \in Hours |-> FALSE]
    /\ file_lines = [h \in Hours |-> <<>>]
    /\ is_closed = [h \in Hours |-> FALSE]
    /\ header_keys = "none"
    /\ outside_header_calls = 0
    /\ stats = NoStatistics

\* HourlyCSVManager.add_row (lines 258-277) for a row of hour h:
\* writers[h].add_rows([row]) (lines 219-228: _initialize, extend the
\* buffer, flush at BUFFER_SIZE), then row_counts[h] += 1.
HourlyAddRow(h) ==
    /\ writer_class = "HourlyCSVWriter"
    /\ wmpc = "open"
    /\ row_counts[h] < MaxWriterRows
    /\ is_initialized' = [is_initialized EXCEPT ![h] = TRUE]
    /\ file_exists' = [file_exists EXCEPT ![h] = TRUE]
    /\ IF buffer[h] + 1 >= BUFFER_SIZE
          THEN /\ file_lines' = [file_lines EXCEPT ![h] =
                                    LinesAfterInitialize(h) \o RowLines(buffer[h] + 1)]
               /\ total_rows_written' = [total_rows_written EXCEPT ![h] = @ + buffer[h] + 1]
               /\ buffer' = [buffer EXCEPT ![h] = 0]
          ELSE /\ file_lines' = [file_lines EXCEPT ![h] = LinesAfterInitialize(h)]
               /\ buffer' = [buffer EXCEPT ![h] = @ + 1]
               /\ UNCHANGED total_rows_written
    /\ row_counts' = [row_counts EXCEPT ![h] = @ + 1]
    /\ UNCHANGED <<writer_class, wmpc, is_closed, header_keys>>
    /\ UNCHANGED nonWriterVars
    /\ UNCHANGED outside_header_calls
    /\ UNCHANGED stats

\* An exception is raised inside the with-block of
\* flatten_all_json_to_hourly_csv (lines 332-348).
ManagerRaise ==
    /\ writer_class = "HourlyCSVWriter"
    /\ wmpc = "open"
    /\ wmpc' = "error"
    /\ UNCHANGED <<writer_class, is_initialized, buffer, total_rows_written,
                   row_counts, file_exists, file_lines, is_closed, header_keys>>
    /\ UNCHANGED nonWriterVars
    /\ UNCHANGED outside_header_calls
    /\ UNCHANGED stats

\* HourlyCSVManager.get_statistics (lines 289-303), called as the last
\* statement inside the with-block (line 350), before __exit__ closes the
\* writers: total_rows sums total_rows_written, which counts flushed rows
\* only, and files_created lists the writers whose total_rows_written is
\* positive (each named here by its hour).
ManagerGetStatistics ==
    /\ writer_class = "HourlyCSVWriter"
    /\ wmpc = "open"
    /\ wmpc' = "stats"
    /\ stats' = [taken |-> TRUE,
                 total_rows |-> SumSeq(total_rows_written),
                 files_created |-> {h \in Hours : total_rows_written[h] > 0}]
    /\ UNCHANGED <<writer_class, is_initialized, buffer, total_rows_written,
                   row_counts, file_exists, file_lines, is_closed, header_keys>>
    /\ UNCHANGED nonWriterVars
    /\ UNCHANGED outside_header_calls

\* HourlyCSVManager.__exit__ (line 375), at the end of the with-block or on
\* the exception: close_all (lines 284-287) calls close on every writer,
\* which flushes (lines 230-235) and closes its file.
ManagerExit ==
    /\ writer_class = "HourlyCSVWriter"
    /\ wmpc \in {"stats", "error"}
    /\ file_lines' = [h \in Hours |-> file_lines[h] \o RowLines(RowsFlushedAtClose(h))]
    /\ total_rows_written' = [h \in Hours |-> total_rows_written[h] + RowsFlushedAtClose(h)]
    /\ buffer' = [h \in Hours |-> buffer[h] - RowsFlushedAtClose(h)]
    /\ is_closed' = [h \in Hours |-> TRUE]
    /\ wmpc' = IF wmpc = "error" THEN "exited_after_error" ELSE "exited"
    /\ UNCHANGED <<writer_class, is_initialized, row_counts, file_exists, header_keys>>
    /\ UNCHANGED nonWriterVars
    /\ UNCHANGED outside_header_calls
    /\ UNCHANGED stats

\* csv.DictWriter.writerow as CSVRowWriter uses it (writer.py:19, 22): the
\* writer is built with the default extrasaction, so a row with a key outside
\* fieldnames raises ValueError before anything reaches the file.
\* outside: the row has a key that the header lacks.
WriterowAcceptsAnyRow(outside) == FALSE
WriterowRaises(outside) == outside

\* CSVRowWriter.write_row (writer.py:14-23), called by
\* flatten_all_json_to_csv.  The first row fixes the header to its keys; a
\* later row with a key outside the header makes DictWriter.writerow raise
\* before rows_written is incremented (the caller logs it and goes on with
\* the next file).  extra: the row has a key the plain rows lack.
RowWriterWriteRow(extra) ==
    /\ writer_class = "CSVRowWriter"
    /\ wmpc = "open"
    /\ row_counts[1] < MaxWriterRows
    /\ row_counts' = [row_counts EXCEPT ![1] = @ + 1]
    /\ LET key_outside == is_initialized[1] /\ extra /\ header_keys = "keys"
       IN  /\ outside_header_calls' = outside_header_calls + (IF key_outside THEN 1 ELSE 0)
           /\ IF WriterowRaises(key_outside)
                 THEN UNCHANGED <<is_initialized, file_exists, file_lines,
                                  total_rows_written, header_keys>>
                 ELSE /\ is_initialized' = [is_initialized EXCEPT ![1] = TRUE]
                      /\ file_exists' = [file_exists EXCEPT ![1] = TRUE]
                      /\ header_keys' = IF is_initialized[1] THEN header_keys
                                        ELSE IF extra THEN "keys_and_extra" ELSE "keys"
                      /\ file_lines' = [file_lines EXCEPT ![1] = LinesAfterInitialize(1) \o <<"row">>]
                      /\ total_rows_written' = [total_rows_written EXCEPT ![1] = @ + 1]
    /\ UNCHANGED <<writer_class, wmpc, buffer, is_closed>>
    /\ UNCHANGED nonWriterVars
    /\ UNCHANGED stats

\* CSVRowWriter.finalize (writer.py:25-27), processor.py:50.
RowWriterFinalize ==
    /\ writer_class = "CSVRowWriter"
    /\ wmpc = "open"
    /\ wmpc' = "exited"
    /\ is_closed' = [is_closed EXCEPT ![1] = TRUE]
    /\ UNCHANGED <<writer_class, is_initialized, buffer, total_rows_written,
                   row_counts, file_exists, file_lines, header_keys>>
    /\ UNCHANGED nonWriterVars
    /\ UNCHANGED outside_header_calls
    /\ UNCHANGED stats

\* ThreadSafeCSVWriter.__init__ (data_eng/json_to_csv.py:64-73), called by
\* convert_date_to_csv (line 323) once it has found a JSON file: the file
\* is opened for writing and the header written.
ThreadSafeConstruct ==
    /\ writer_class = "ThreadSafeCSVWriter"
    /\ wmpc = "new"
    /\ wmpc' = "open"
    /\ is_initialized' = [is_initialized EXCEPT ![1] = TRUE]
    /\ file_exists' = [file_exists EXCEPT ![1] = TRUE]
    /\ file_lines' = [file_lines EXCEPT ![1] = <<"header">>]
    /\ UNCHANGED <<writer_class, buffer, total_rows_written, row_counts,
                   is_closed, header_keys>>
    /\ UNCHANGED nonWriterVars
    /\ UNCHANGED outside_header_calls
    /\ UNCHANGED stats

\* ThreadSafeCSVWriter.write_rows (lines 75-87) with n rows, as
\* convert_date_to_csv calls it (never with an empty list, lines 376, 392).
ThreadSafeWriteRows(n) ==
    /\ writer_class = "ThreadSafeCSVWriter"
    /\ wmpc = "open"
    /\ row_counts[1] + n <= MaxWriterRows
    /\ file_lines' = [file_lines EXCEPT ![1] = @ \o RowLines(n)]
    /\ total_rows_written' = [total_rows_written EXCEPT ![1] = @ + n]
    /\ row_counts' = [row_counts EXCEPT ![1] = @ + n]
    /\ UNCHANGED <<writer_class, wmpc, is_initialized, buffer, file_exists,
                   is_closed, header_keys>>
    /\ UNCHANGED nonWriterVars
    /\ UNCHANGED outside_header_calls
    /\ UNCHANGED stats

\* convert_date_to_csv returns (lines 396-400); every write_rows has closed
\* the file it opened.
ThreadSafeDone ==
    /\ writer_class = "ThreadSafeCSVWriter"
    /\ wmpc = "open"
    /\ wmpc' = "exited"
    /\ is_closed' = [is_closed EXCEPT ![1] = TRUE]
    /\ UNCHANGED <<writer_class, is_initialized, buffer, total_rows_written,
                   row_counts, file_exists, file_lines, header_keys>>
    /\ UNCHANGED nonWriterVars
    /\ UNCHANGED outside_header_calls
    /\ UNCHANGED stats

WriterNext ==
    \/ \E h \in Hours : HourlyAddRow(h)
    \/ ManagerRaise
    \/ ManagerGetStatistics
    \/ ManagerExit
    \/ \E extra \in BOOLEAN : RowWriterWriteRow(extra)
    \/ RowWriterFinalize
    \/ ThreadSafeConstruct
    \/ \E n \in 1..2 : ThreadSafeWriteRows(n)
    \/ ThreadSafeDone

SpecWriter == WriterInit /\ [][WriterNext]_vars

(***************************************************************************)
(* ======================= process_time_filtering ======================== *)
(*                                                                         *)
(* src/src/data_eng/time_filtering.py.  MaxFilterRows bounds the number of *)
(* rows of the input CSV.                                                  *)
(***************************************************************************)
MaxFilterRows == 4

\* The units of pd.to_datetime(..., unit="s") and of Series.dt.hour.
SecondsPerHour == 3600
HoursPerDay == 24

\* A cell of the timestamp column: a number of seconds since the epoch, or
\* a missing value.
NoTimestamp == [nan |-> TRUE, v |-> 0]
Timestamp(v) == [nan |-> FALSE, v |-> v]

\* The rows the input CSV can hold: base timestamps at the hours 0 and 3 of
\* the first day and 12 of the second, offsets of 0 s, one second less than
\* an hour and one hour (so the hours 0, 1, 3, 4, 12 and 13), and a row
\* without timestamp.
BaseTimestamps ==
    {0, 3 * SecondsPerHour, (HoursPerDay + 12) * SecondsPerHour}
SecondsAfter == {0, SecondsPerHour - 1, SecondsPerHour}
InputRowValues ==
    {[timestamp |-> Timestamp(t), seconds_after_timestamp |-> o] :
         t \in BaseTimestamps, o \in SecondsAfter}
    \cup {[timestamp |-> NoTimestamp, seconds_after_timestamp |-> 0]}

\* What the input file can be: missing, unreadable (pd.read_csv raises),
\* without one of the required columns, without one of the columns that
\* reorder_columns moves to the front, or complete.
InputFileKinds == {"missing", "unreadable", "norequired", "nofixed", "data"}

\* time_filtering.py:141-144
time_windows ==
    << [start |-> 1, end |-> 4, suffix |-> "0100-0400"],
       [start |-> 11, end |-> 13, suffix |-> "1100-1300"] >>
Suffixes == {time_windows[i].suffix : i \in DOMAIN time_windows}

\* pd.to_datetime(absolute_timestamp, unit="s", utc=True): the instant, kept
\* as its seconds since the epoch; NaT for a missing value.
NaT == [nat |-> TRUE, s |-> 0]
ToDatetime(ts, seconds) ==
    IF ts.nan THEN NaT ELSE [nat |-> FALSE, s |-> ts.v + seconds]

\* create_utc_datetime: every row gets its datetime_utc cell (and keeps the
\* line of the input it came from, standing for its other columns).
create_utc_datetime(rows) ==
    [i \in DOMAIN rows |->
        [line |-> i,
         datetime_utc |-> ToDatetime(rows[i].timestamp, rows[i].seconds_after_timestamp)]]

\* Series.dt.hour: the hour of the day in UTC; a comparison with the NaN of
\* a NaT cell is False, so such a row is in no mask.
DtHour(d) == (d.s \div SecondsPerHour) % HoursPerDay

\* filter_by_time_range
FilterInclusiveEnd(df, start_hour, end_hour) ==
    SelectSeq(df, LAMBDA r : /\ ~r.datetime_utc.nat
                             /\ DtHour(r.datetime_utc) >= start_hour
                             /\ DtHour(r.datetime_utc) <= end_hour)
filter_by_time_range(df, start_hour, end_hour) ==
    SelectSeq(df, LAMBDA r : /\ ~r.datetime_utc.nat
                             /\ DtHour(r.datetime_utc) >= start_hour
                             /\ DtHour(r.datetime_utc) < end_hour)

\* df.sort_values(by="datetime_utc").reset_index(drop=True) on a frame
\* without NaT.  The order of rows of equal datetime_utc is left to the
\* sorting algorithm by the code; the model keeps them in frame order.
InsertByDatetime(r, s) ==
    LET k == Cardinality({i \in DOMAIN s : s[i].datetime_utc.s <= r.datetime_utc.s})
    IN  SubSeq(s, 1, k) \o <<r>> \o SubSeq(s, k + 1, Len(s))
RECURSIVE SortByDatetime(_)
SortByDatetime(df) ==
    IF df = <<>> THEN <<>>
    ELSE InsertByDatetime(df[Len(df)], SortByDatetime(SubSeq(df, 1, Len(df) - 1)))

FilterInit ==
    /\ ConvIdle /\ AggIdle /\ DecIdle /\ ReorderIdle /\ BatchIdle /\ WriterIdle /\ PipelineIdle /\ LockIdle
    /\ input_file = "data"
    /\ input_rows = <<>>
    /\ fpc = "setup"
    /\ loaded_df = <<>>
    /\ window_i = 0
    /\ output_exists = [x \in Suffixes |-> FALSE]
    /\ output_rows = [x \in Suffixes |-> <<>>]

\* Before the call: the earlier stage wrote one more row to the input CSV.
InputRowArrives ==
    /\ fpc = "setup"
    /\ Len(input_rows) < MaxFilterRows
    /\ \E r \in InputRowValues : input_rows' = Append(input_rows, r)
    /\ UNCHANGED nonFilterVars
    /\ UNCHANGED <<input_file, fpc, loaded_df, window_i, output_exists, output_rows>>

\* time_filtering.py:201-203: main calls process_time_filtering for the date.
FilterCall ==
    /\ fpc = "setup"
    /\ input_file' \in InputFileKinds
    /\ fpc' = "load"
    /\ UNCHANGED nonFilterVars
    /\ UNCHANGED <<input_rows, loaded_df, window_i, output_exists, output_rows>>

\* time_filtering.py:115-138 and 181-183: return when the input file is
\* missing; an error of pd.read_csv is logged and raised again; return when
\* a required column is missing; else add the datetime_utc column.
FilterLoad ==
    /\ fpc = "load"
    /\ IF input_file \in {"missing", "norequired"}
          THEN fpc' = "done" /\ loaded_df' = loaded_df
          ELSE IF input_file = "unreadable"
                  THEN fpc' = "raised" /\ loaded_df' = loaded_df
                  ELSE fpc' = "windows" /\ loaded_df' = create_utc_datetime(input_rows)
    /\ UNCHANGED nonFilterVars
    /\ UNCHANGED <<input_file, input_rows, window_i, output_exists, output_rows>>

\* time_filtering.py:147-183: one turn of the loop over the
\* windows: an empty selection is skipped; reorder_columns raises KeyError
\* when the frame lacks one of cols_to_fix; else the selection is sorted
\* and written to the window's file.
FilterWindow ==
    /\ fpc = "windows"
    /\ window_i < Len(time_windows)
    /\ LET window == time_windows[window_i + 1]
           filtered_df == filter_by_time_range(loaded_df, window.start, window.end)
       IN  IF filtered_df = <<>>
              THEN /\ window_i' = window_i + 1
                   /\ UNCHANGED <<fpc, output_exists, output_rows>>
              ELSE IF input_file = "nofixed"
                      THEN /\ fpc' = "raised"
                           /\ UNCHANGED <<window_i, output_exists, output_rows>>
                      ELSE /\ output_exists' = [output_exists EXCEPT ![window.suffix] = TRUE]
                           /\ output_rows' =
                                  [output_rows EXCEPT ![window.suffix] = SortByDatetime(filtered_df)]
                           /\ window_i' = window_i + 1
                           /\ fpc' = fpc
    /\ UNCHANGED nonFilterVars
    /\ UNCHANGED <<input_file, input_rows, loaded_df>>

\* The loop over the windows is over: the function returns.
FilterReturn ==
    /\ fpc = "windows"
    /\ window_i = Len(time_windows)
    /\ fpc' = "done"
    /\ UNCHANGED nonFilterVars
    /\ UNCHANGED <<input_file, input_rows, loaded_df, window_i, output_exists, output_rows>>

FilterNext ==
    \/ InputRowArrives
    \/ FilterCall
    \/ FilterLoad
    \/ FilterWindow
    \/ FilterReturn

SpecFilter == FilterInit /\ [][FilterNext]_vars

(***************************************************************************)
(* ======================= pipeline orchestrators ======================== *)
(*                                                                         *)
(* src/src/data_eng/run_pipeline.py (five steps per date) and              *)
(* src/scripts/get_traces.py (download, extract, decompress per date), run *)
(* as scripts.  MaxDates bounds the number of dates on the command line.   *)
(***************************************************************************)
MaxDates == 2

Orchestrators == {"run_pipeline", "get_traces"}

\* get_traces.py:41-43, the stages of one date in call order.
GetTracesStages == <<"download_for_date", "extract_for_date", "decompress_for_date">>

\* What the environment holds for a date: every stage does its work, or one
\* stage goes wrong: it logs and returns without result ("fails"; e.g.
\* extract.py:84-91, decompress.py:42-44) or raises an exception.
AllOk == [stage |-> "none", how |-> "ok"]
DateOutcomes ==
    {AllOk} \cup {[stage |-> GetTracesStages[i], how |-> h] :
                     i \in DOMAIN GetTracesStages, h \in {"fails", "raises"}}

\* The command lines: one or more dates (nargs="+"), here without repeats.
DateLists ==
    {ds \in UNION {[1..n -> 1..MaxDates] : n \in 1..MaxDates} :
        \A i, j \in DOMAIN ds : i # j => ds[i] # ds[j]}

PipelineInit ==
    /\ ConvIdle /\ AggIdle /\ DecIdle /\ ReorderIdle /\ BatchIdle /\ WriterIdle /\ FilterIdle /\ LockIdle
    /\ orchestrator \in Orchestrators
    /\ dates \in DateLists
    /\ date_outcome \in [1..MaxDates -> DateOutcomes]
    /\ ppc = "import"
    /\ date_i = 1
    /\ stage_i = 1
    /\ attempted = <<>>
    /\ error_log = <<>>
    /\ exit_code = 0

\* run_pipeline.py:12-17: the imports at the top of the script.  Line 16
\* imports flatten_all_json_to_csv from json_to_csv, and the json_to_csv
\* module next to the script (data_eng/json_to_csv.py) defines no such
\* name: ImportError, the interpreter prints the traceback and exits with
\* status 1 before main is reached.
RunPipelineImport ==
    /\ ppc = "import"
    /\ orchestrator = "run_pipeline"
    /\ ppc' = "done"
    /\ exit_code' = 1
    /\ UNCHANGED <<orchestrator, dates, date_outcome, date_i, stage_i, attempted, error_log>>
    /\ UNCHANGED nonPipelineVars

\* get_traces.py:10-12 and 48-61: the imports, the argument parser, the
\* call of run_pipeline(args.dates).
GetTracesImport ==
    /\ ppc = "import"
    /\ orchestrator = "get_traces"
    /\ ppc' = "loop"
    /\ UNCHANGED <<orchestrator, dates, date_outcome, date_i, stage_i, attempted,
                   error_log, exit_code>>
    /\ UNCHANGED nonPipelineVars

\* What follows a stage call in get_traces.run_pipeline (lines 40-45): an
\* exception is logged and the loop goes to the next date; a call that
\* returns is followed by the next stage of the date, or by the next date
\* after the last stage.
AfterStage(raised) ==
    /\ ppc' = ppc /\ exit_code' = exit_code
    /\ IF raised
          THEN /\ error_log' = Append(error_log, dates[date_i])
               /\ date_i' = date_i + 1 /\ stage_i' = 1
          ELSE /\ error_log' = error_log
               /\ IF stage_i < Len(GetTracesStages)
                     THEN date_i' = date_i /\ stage_i' = stage_i + 1
                     ELSE date_i' = date_i + 1 /\ stage_i' = 1

\* get_traces.py:38-45: the next stage is called for the current date.
GetTracesStage ==
    /\ ppc = "loop"
    /\ date_i <= Len(dates)
    /\ LET date_str == dates[date_i]
           stage == GetTracesStages[stage_i]
       IN  /\ attempted' = Append(attempted, <<date_str, stage>>)
           /\ AfterStage(date_outcome[date_str] = [stage |-> stage, how |-> "raises"])
    /\ UNCHANGED <<orchestrator, dates, date_outcome>>
    /\ UNCHANGED nonPipelineVars

\* get_traces.py:61-63: run_pipeline has returned; the script logs and ends,
\* exit status 0.
GetTracesExit ==
    /\ ppc = "loop"
    /\ date_i > Len(dates)
    /\ ppc' = "done"
    /\ exit_code' = 0
    /\ UNCHANGED <<orchestrator, dates, date_outcome, date_i, stage_i, attempted, error_log>>
    /\ UNCHANGED nonPipelineVars

PipelineNext ==
    \/ RunPipelineImport
    \/ GetTracesImport
    \/ GetTracesStage
    \/ GetTracesExit

SpecPipeline == PipelineInit /\ [][PipelineNext]_vars

(***************************************************************************)
(* ============== ThreadSafeCSVWriter under concurrent callers =========== *)
(*                                                                         *)
(* src/src/data_eng/json_to_csv.py:61-87.  WriterThreads bounds the number *)
(* of threads that call write_rows on one writer, MaxCalls the calls they  *)
(* make in all and MaxCallRows the rows of one call.                       *)
(***************************************************************************)
WriterThreads == 2
MaxCalls == 3
MaxCallRows == 2

Threads == 1..WriterThreads

\* threading.Lock: `with self.lock` (line 80) enters when the lock is free.
LockAlwaysFree(holder) == TRUE
LockIsFree(holder) == holder = 0

LockInit ==
    /\ ConvIdle /\ AggIdle /\ DecIdle /\ ReorderIdle /\ BatchIdle /\ WriterIdle /\ FilterIdle /\ PipelineIdle
    /\ lock_holder = 0
    /\ tpc = [t \in Threads |-> "idle"]
    /\ call_no = [t \in Threads |-> 0]
    /\ call_rows = [t \in Threads |-> 0]
    /\ rows_done = [t \in Threads |-> 0]
    /\ loaded_count = [t \in Threads |-> 0]
    /\ shared_file = <<"header">>
    /\ shared_row_count = 0
    /\ completed_rows = 0

\* Lines 75-78: a thread calls write_rows(rows); an empty list returns at
\* once.
CallWriteRows(t, n) ==
    /\ tpc[t] = "idle"
    /\ SumSeq(call_no) < MaxCalls
    /\ call_no' = [call_no EXCEPT ![t] = @ + 1]
    /\ call_rows' = [call_rows EXCEPT ![t] = n]
    /\ rows_done' = [rows_done EXCEPT ![t] = 0]
    /\ tpc' = [tpc EXCEPT ![t] = IF n = 0 THEN "idle" ELSE "lock"]
    /\ UNCHANGED <<lock_holder, loaded_count, shared_file, shared_row_count,
                   completed_rows>>
    /\ UNCHANGED nonLockVars

\* Lines 80-82: the lock is taken, the file opened for appending.
AcquireLock(t) ==
    /\ t \in DOMAIN tpc
    /\ tpc[t] = "lock"
    /\ LockIsFree(lock_holder)
    /\ lock_holder' = t
    /\ tpc' = [tpc EXCEPT ![t] = "write"]
    /\ UNCHANGED <<call_no, call_rows, rows_done, loaded_count, shared_file,
                   shared_row_count, completed_rows>>
    /\ UNCHANGED nonLockVars

\* Lines 83-86: one turn of the loop over rows: writer.writerow(clean_row).
WriteOneRow(t) ==
    /\ t \in DOMAIN tpc
    /\ tpc[t] = "write"
    /\ shared_file' = Append(shared_file, <<t, call_no[t], rows_done[t] + 1>>)
    /\ rows_done' = [rows_done EXCEPT ![t] = @ + 1]
    /\ tpc' = [tpc EXCEPT ![t] = IF rows_done[t] + 1 = call_rows[t] THEN "load" ELSE "write"]
    /\ UNCHANGED <<lock_holder, call_no, call_rows, loaded_count,
                   shared_row_count, completed_rows>>
    /\ UNCHANGED nonLockVars

\* Line 87, self.row_count += len(rows): the attribute is read ...
LoadRowCount(t) ==
    /\ t \in DOMAIN tpc
    /\ tpc[t] = "load"
    /\ loaded_count' = [loaded_count EXCEPT ![t] = shared_row_count]
    /\ tpc' = [tpc EXCEPT ![t] = "store"]
    /\ UNCHANGED <<lock_holder, call_no, call_rows, rows_done, shared_file,
                   shared_row_count, completed_rows>>
    /\ UNCHANGED nonLockVars

\* ... and the sum is stored.
StoreRowCount(t) ==
    /\ t \in DOMAIN tpc
    /\ tpc[t] = "store"
    /\ shared_row_count' = loaded_count[t] + call_rows[t]
    /\ tpc' = [tpc EXCEPT ![t] = "unlock"]
    /\ UNCHANGED <<lock_holder, call_no, call_rows, rows_done, loaded_count,
                   shared_file, completed_rows>>
    /\ UNCHANGED nonLockVars

\* The two with statements end: the file is closed, the lock released, the
\* call returns.
ReleaseLock(t) ==
    /\ t \in DOMAIN tpc
    /\ tpc[t] = "unlock"
    /\ lock_holder' = IF lock_holder = t THEN 0 ELSE lock_holder
    /\ completed_rows' = completed_rows + call_rows[t]
    /\ tpc' = [tpc EXCEPT ![t] = "idle"]
    /\ UNCHANGED <<call_no, call_rows, rows_done, loaded_count, shared_file,
                   shared_row_count>>
    /\ UNCHANGED nonLockVars

LockNext ==
    \/ \E t \in Threads : \E n \in 0..MaxCallRows : CallWriteRows(t, n)
    \/ \E t \in Threads : AcquireLock(t)
    \/ \E t \in Threads : WriteOneRow(t)
    \/ \E t \in Threads : LoadRowCount(t)
    \/ \E t \in Threads : StoreRowCount(t)
    \/ \E t \in Threads : ReleaseLock(t)

SpecLock == LockInit /\ [][LockNext]_vars

(***************************************************************************)
(* Properties of the decoders.                                             *)
(***************************************************************************)
IsArray(e) == e.kind = "array"
ArrayEntries(trace) == SelectSeq(trace, IsArray)
AllArrays(trace) == \A i \in DOMAIN trace : IsArray(trace[i])

\* C6: for every trace document, the number of rows the decoder produces
\* equals the number of array-typed entries of its trace; an entry that is
\* no array is skipped and the entries after it are still decoded.  Stated
\* for convert_json_to_csv, json_to_dataframe and process_file_streaming.
C6_RowCountIsArrayEntryCount ==
    decoder \in {"convert_json_to_csv", "process_single_trace", "process_file_streaming"}
        => Len(dec_rows) = Len(ArrayEntries(TraceOrEmpty))

\* C7: the row decoded from an entry of length >= 1 has
\* abs_timestamp = base_timestamp + entry[0], and the row decoded from an
\* entry of length 0 has abs_timestamp = base_timestamp.  Stated for
\* convert_json_to_csv and json_to_dataframe, whose rows are those of the
\* array entries in trace order; base_timestamp is the document's timestamp,
\* 0 when it has none.
C7_AbsTimestampIsBasePlusOffset ==
    decoder \in {"convert_json_to_csv", "process_single_trace"} =>
        LET entries == ArrayEntries(TraceOrEmpty)
            base == IF "timestamp" \in doc.keys THEN TopValue("timestamp").n ELSE 0
        IN  /\ Len(dec_rows) = Len(entries)
            /\ \A i \in DOMAIN dec_rows :
                  /\ "abs_timestamp" \in DOMAIN dec_rows[i]
                  /\ dec_rows[i]["abs_timestamp"] =
                        IF Len(entries[i].vals) >= 1
                           THEN Num(base + entries[i].vals[1].n)
                           ELSE Num(base)

\* A document with a timestamp was decoded by convert_json_to_csv into two
\* rows, one of an empty entry (abs_timestamp is the base) and one of an
\* entry with a non-zero offset (abs_timestamp is beyond the base).
C7_WitnessEmptyAndOffsetEntry ==
    /\ decoder = "convert_json_to_csv"
    /\ "timestamp" \in doc.keys
    /\ Len(dec_rows) = 2
    /\ \E i, j \in DOMAIN doc.trace :
          /\ IsArray(doc.trace[i]) /\ Len(doc.trace[i].vals) = 0
          /\ IsArray(doc.trace[j]) /\ Len(doc.trace[j].vals) >= 1
          /\ doc.trace[j].vals[1].n > 0
    /\ \E i, j \in DOMAIN dec_rows :
          /\ dec_rows[i]["abs_timestamp"] = TopValue("timestamp")
          /\ dec_rows[j]["abs_timestamp"].n > TopValue("timestamp").n

\* The name a decoder gives to the canonical field at a position.
CanonicalName(i) ==
    IF decoder = "process_single_file" THEN SINGLE_FILE_FIELD_NAMES[i]
    ELSE TRACE_FIELD_NAMES[i]

\* C8: a trace entry with fewer than 14 elements still produces a row, in
\* which every canonical field beyond the end of the array is present with
\* a null value and the fields that are present keep their positional
\* values.  Stated for convert_json_to_csv, flatten_all_json_to_csv and
\* process_single_file on traces of arrays only, metadata inclusion
\* disabled (position 8 is then no column).
C8_ShortEntryStillProducesRow ==
    ( /\ decoder \in {"convert_json_to_csv", "flatten_all_json_to_csv", "process_single_file"}
      /\ ~include_metadata
      /\ AllArrays(TraceOrEmpty) ) =>
        /\ Len(dec_rows) = Len(TraceOrEmpty)
        /\ \A i \in DOMAIN dec_rows : \A p \in (1..14) \ {9} :
              /\ CanonicalName(p) \in DOMAIN dec_rows[i]
              /\ dec_rows[i][CanonicalName(p)] =
                    IF p <= Len(doc.trace[i].vals) THEN doc.trace[i].vals[p] ELSE Null

\* C9: with metadata inclusion disabled no decoded row has an
\* aircraft_metadata column; with it enabled each key k of the object at
\* position 8 is a column meta_k or metadata.k of the row and
\* aircraft_metadata is no column of the row.  Stated for
\* convert_json_to_csv, flatten_all_json_to_csv and process_file_streaming
\* on traces of arrays only.
C9_MetadataOmittedOrPrefixed ==
    ( /\ decoder \in {"convert_json_to_csv", "flatten_all_json_to_csv", "process_file_streaming"}
      /\ AllArrays(TraceOrEmpty)
      /\ Len(dec_rows) = Len(TraceOrEmpty) ) =>
        \A i \in DOMAIN dec_rows :
            /\ "aircraft_metadata" \notin DOMAIN dec_rows[i]
            /\ ( /\ include_metadata
                 /\ Len(doc.trace[i].vals) >= 9
                 /\ doc.trace[i].vals[9].t = "obj" ) =>
                    \A key \in doc.trace[i].vals[9].k :
                        \/ ("meta_" \o key) \in DOMAIN dec_rows[i]
                        \/ ("metadata." \o key) \in DOMAIN dec_rows[i]

(***************************************************************************)
(* Properties of the column ordering.                                      *)
(***************************************************************************)
\* The place of a column in a list of names, 0 when it is not in it.
IndexIn(names, col) ==
    IF col \in Range(names) THEN CHOOSE i \in DOMAIN names : names[i] = col ELSE 0

\* 1 for a priority column, 3 for an ending column, 2 for any other.
ColumnGroup(col) ==
    IF col \in Range(priority_columns) THEN 1
    ELSE IF col \in Range(ending_columns) THEN 3 ELSE 2

\* The columns of the frame when it is ordered: those that arrived and the
\* derived datetime column.
FrameColumns == all_columns(df_columns)

\* C10: for any columns in any arrival order, the reordered header is the
\* priority columns datetime, abs_timestamp, icao that are present, in that
\* order, then all other columns in their original relative order, then the
\* ending columns timestamp, seconds_after_timestamp that are present, in
\* that order; it holds every column of the frame exactly once.
C10_HeaderIsPriorityMiddleSuffix ==
    reordered_by \in {"standardize_columns", "process_final_dataframe"} =>
        /\ Len(out_columns) = Len(FrameColumns)
        /\ Range(out_columns) = Range(FrameColumns)
        /\ \A i, j \in DOMAIN out_columns : i < j =>
              LET a == out_columns[i]
                  b == out_columns[j]
              IN  /\ a # b
                  /\ ColumnGroup(a) <= ColumnGroup(b)
                  /\ (ColumnGroup(a) = 1 /\ ColumnGroup(b) = 1) =>
                        IndexIn(priority_columns, a) < IndexIn(priority_columns, b)
                  /\ (ColumnGroup(a) = 2 /\ ColumnGroup(b) = 2) =>
                        IndexIn(FrameColumns, a) < IndexIn(FrameColumns, b)
                  /\ (ColumnGroup(a) = 3 /\ ColumnGroup(b) = 3) =>
                        IndexIn(ending_columns, a) < IndexIn(ending_columns, b)

\* process_final_dataframe ordered a frame whose columns arrived with an
\* ending column first and a priority column last, two other columns in
\* between, one priority and one ending column missing.
C10_WitnessOutOfOrderArrival ==
    /\ reordered_by = "process_final_dataframe"
    /\ df_columns = <<"seconds_after_timestamp", "r", "latitude", "icao", "abs_timestamp">>
    /\ out_columns = <<"datetime", "abs_timestamp", "icao", "r", "latitude",
                       "seconds_after_timestamp">>

(***************************************************************************)
(* Properties of the conversion runs (queue variant and thread pool).      *)
(***************************************************************************)
\* One conversion run of either variant: convert_date_to_csv with its
\* worker threads, or batch_json_to_csv with its loop or pool.
ConversionInit == ConvInit \/ BatchInit
ConversionNext == ConvNext \/ BatchNext
SpecConversion == ConversionInit /\ [][ConversionNext]_vars

\* C11: in one conversion run each input file is processed at most once.
\* Queue variant: process_single_file is called at most once per file,
\* whichever worker takes it.  Thread pool: the tasks submitted are for
\* pairwise different files, all files have a task once the submission is
\* over, and convert_single_file is called at most once per file.
C11_EachFileProcessedAtMostOnce ==
    /\ \A f \in DOMAIN process_calls : process_calls[f] <= 1
    /\ \A f \in DOMAIN convert_calls : convert_calls[f] <= 1
    /\ bpc = "parallel" =>
          /\ \A t, u \in 1..submitted : t # u => TaskFile(t) # TaskFile(u)
          /\ submitted = Len(todo_files) =>
                {TaskFile(t) : t \in 1..submitted} = Range(todo_files)

\* Two workers of the queue variant hold a file each at the same time and
\* every file has been taken from the queue once.
C11_WitnessTwoWorkersBusy ==
    /\ json_files >= 3
    /\ wpc[1] = "put_result" /\ wpc[2] = "put_result"
    /\ wrows[1] # wrows[2]
    /\ \A f \in DOMAIN process_calls : process_calls[f] = 1

\* The files of the run whose document is of one of the given kinds.
TodoOfKind(kinds) == {f \in Range(todo_files) : trace_files[f].doc \in kinds}

\* C12: when batch_convert_sequential or batch_convert_parallel has
\* returned, every file whose conversion failed or raised is counted as
\* failed and only those, every file that can be converted has its CSV,
\* and successful + failed is the number of input files.  (No state of the
\* run is one in which an exception has left convert_single_file or the
\* batch function: every failure is a returned False.)
C12_FailuresAreCountedOthersConverted ==
    bpc \in {"summary", "done"} /\ todo_files # <<>> =>
        /\ successful + failed = Len(todo_files)
        /\ failed = Cardinality(TodoOfKind(DocKinds \ {"rows"}))
        /\ TodoOfKind({"rows"}) = csv_written

\* The pool converted a file after one whose text was no JSON: one failure
\* counted, the later file converted.
C12_WitnessFailureThenSuccess ==
    /\ bpc = "done"
    /\ parallel /\ Len(todo_files) >= 2
    /\ trace_files[1].doc = "invalid"
    /\ 2 \in csv_written
    /\ failed = 1
    /\ successful = Len(todo_files) - 1

\* C13: a document without a trace key or with an empty trace is a no-op,
\* not a failure: it does not add to the failed count (failed counts at
\* most the files that are no JSON or hold no list entry), and a run whose
\* files all have rows, no trace key or an empty trace reports success.
C13_NoTraceIsNoFailure ==
    bpc = "done" /\ todo_files # <<>> =>
        /\ failed <= Cardinality(TodoOfKind({"invalid", "norows"}))
        /\ TodoOfKind({"invalid", "norows"}) = {} => stage_result = "True"

(***************************************************************************)
(* Properties of the CSV writers.                                          *)
(***************************************************************************)
\* C14: for any sequence of row writes to one CSV writer (HourlyCSVWriter,
\* CSVRowWriter, ThreadSafeCSVWriter) the header is written to the file
\* exactly once and before the first data row: a file that holds anything
\* starts with the header and holds only data rows after it.
C14_HeaderOnceBeforeRows ==
    \A h \in DOMAIN file_lines :
        file_lines[h] # <<>> =>
            /\ file_lines[h][1] = "header"
            /\ \A i \in 2..Len(file_lines[h]) : file_lines[h][i] = "row"

\* An hourly writer was initialized once, flushed at BUFFER_SIZE, took one
\* more row and was closed: header, then three rows.
C14_WitnessFlushedTwice ==
    /\ writer_class = "HourlyCSVWriter"
    /\ wmpc = "exited"
    /\ file_lines[1] = <<"header", "row", "row", "row">>

\* C15: a CSV writer creates its output file only when the first row
\* arrives: a file exists only for a writer that was handed a row, and
\* when the run is over no file holds only a header.
C15_FileOnlyWithFirstRow ==
    \A h \in DOMAIN file_exists :
        /\ file_exists[h] => row_counts[h] > 0
        /\ (wmpc \in Exited /\ file_exists[h]) => Len(file_lines[h]) > 1

\* Number of data rows of a file.
DataRows(lines) == Cardinality({i \in DOMAIN lines : lines[i] = "row"})

\* C16: for any sequence of add_rows, flush and close calls on an
\* HourlyCSVWriter, total_rows_written + len(buffer) is the number of rows
\* added so far; after close the buffer is empty and every added row is in
\* the file; when the manager's with-block has ended, on completion or on
\* error, every writer has been closed.
C16_BufferedRowsAccountedAndFlushed ==
    writer_class = "HourlyCSVWriter" =>
        /\ \A h \in Hours :
              /\ total_rows_written[h] + buffer[h] = row_counts[h]
              /\ is_closed[h] =>
                    /\ buffer[h] = 0
                    /\ DataRows(file_lines[h]) = row_counts[h]
        /\ wmpc \in Exited => \A h \in Hours : is_closed[h]

\* The with-block ended on an error while one writer had a row in its
\* buffer after an earlier flush, and the other writer had none.
C16_WitnessClosedOnError ==
    /\ writer_class = "HourlyCSVWriter"
    /\ wmpc = "exited_after_error"
    /\ row_counts[1] = 3 /\ total_rows_written[1] = 3
    /\ row_counts[2] = 0 /\ is_closed[2] /\ ~file_exists[2]

(***************************************************************************)
(* Properties of convert_date_to_csv under interrupts and interleavings.   *)
(***************************************************************************)
\* C17: when the user interrupts convert_date_to_csv during result
\* collection, the rows buffered in pending_rows are written to the CSV
\* before any worker thread is joined: once the main thread is at the
\* joins, or past them, every buffered row is in the file.
C17_BufferedRowsFlushedBeforeJoin ==
    (interrupted /\ mpc \in {"join", "done"}) =>
        \A i \in DOMAIN pending_rows :
            \E j \in DOMAIN csv_rows : csv_rows[j] = pending_rows[i]

\* The interrupt came with fewer than BATCH_WRITE_SIZE rows buffered and a
\* worker still at work; the main thread is about to join.
C17_WitnessInterruptWithBufferedRows ==
    /\ interrupted
    /\ mpc = "join"
    /\ pending_rows # <<>>
    /\ Len(pending_rows) < BATCH_WRITE_SIZE
    /\ \E w \in Workers : wpc[w] = "put_result"

\* The place of the first copy of a row in the output, 0 when it has none.
FirstPlace(row) ==
    IF \E k \in DOMAIN csv_rows : csv_rows[k] = row
       THEN CHOOSE k \in DOMAIN csv_rows :
                /\ csv_rows[k] = row
                /\ \A l \in 1..(k - 1) : csv_rows[l] # row
       ELSE 0

SkippedCsvFiles == {f \in DOMAIN csv_files : ~read_csv_safely(f).ok}
ValidCsvFiles == {f \in DOMAIN csv_files : read_csv_safely(f).ok}

(***************************************************************************)
(* C19: when aggregate_daily_csv is over it has returned a boolean (no     *)
(* exception leaves it); it has returned False exactly when no input file  *)
(* is valid; and when some file is valid, the files that cannot be read or *)
(* lack abs_timestamp are skipped and the daily CSV holds the valid rows   *)
(* of all the others.                                                      *)
(***************************************************************************)
C19_BadFilesSkippedRestAggregated ==
    apc = "done" =>
        /\ agg_result \in BOOLEAN
        /\ (agg_result = FALSE) <=> (ValidCsvFiles = {})
        /\ ValidCsvFiles # {} =>
              /\ out_exists
              /\ \A i \in DOMAIN out_rows : out_rows[i].src[1] \notin SkippedCsvFiles
              /\ BagOfSeq(out_rows) = BagOfSeq(ValidInputRows(1))

\* The same, for the calls that read the files with batch_csv_reader
\* (use_parallel false, or no more files than BATCH_SIZE).
C19_SequentialReaderConforms ==
    (use_parallel /\ Len(csv_files) > BATCH_SIZE) \/ C19_BadFilesSkippedRestAggregated

\* batch_csv_reader skipped a bad file and the rest was aggregated.
C19_SequentialSkipReached ==
    /\ apc = "done" /\ agg_result = TRUE
    /\ SkippedCsvFiles # {} /\ Cardinality(ValidCsvFiles) >= 2


(***************************************************************************)
(* ========================= time-window filter ========================== *)
(***************************************************************************)

\* The hour of the day of an input row, from its timestamp and its offset
\* (rows without timestamp have none).
HasHour(i) == ~input_rows[i].timestamp.nan
RowHour(i) ==
    ((input_rows[i].timestamp.v + input_rows[i].seconds_after_timestamp)
        \div SecondsPerHour) % HoursPerDay
LinesInWindow(w) ==
    {i \in DOMAIN input_rows :
        HasHour(i) /\ time_windows[w].start <= RowHour(i) /\ RowHour(i) < time_windows[w].end}
LinesOf(rows) == {rows[i].line : i \in DOMAIN rows}

\* C20: for every window [start_hour, end_hour) the window's output file,
\* when it exists, holds exactly the input rows whose UTC hour h satisfies
\* start_hour <= h < end_hour, each once; and when process_time_filtering
\* has returned, a window has an output file exactly when some input row
\* falls in it (a window without matching row produces no file).
C20_WindowKeepsExactlyItsHours ==
    \A w \in DOMAIN time_windows :
        LET sfx == time_windows[w].suffix IN
        /\ output_exists[sfx] =>
              /\ LinesOf(output_rows[sfx]) = LinesInWindow(w)
              /\ Len(output_rows[sfx]) = Cardinality(LinesInWindow(w))
        /\ ~output_exists[sfx] => output_rows[sfx] = <<>>
        /\ (fpc = "done" /\ input_file = "data") =>
              (output_exists[sfx] <=> LinesInWindow(w) # {})

\* The example: rows at the hours 0, 1, 3 and 4; the first window keeps the
\* rows of hours 1 and 3 and the second window has no file.
C20_WitnessHours0134 ==
    /\ fpc = "done" /\ input_file = "data"
    /\ Len(input_rows) = 4
    /\ \A i \in DOMAIN input_rows : HasHour(i)
    /\ {RowHour(i) : i \in DOMAIN input_rows} = {0, 1, 3, 4}
    /\ output_exists["0100-0400"]
    /\ {RowHour(output_rows["0100-0400"][i].line) : i \in DOMAIN output_rows["0100-0400"]} = {1, 3}
    /\ ~output_exists["1100-1300"]


(***************************************************************************)
(* ===================== conversion stage: second run ==================== *)
(***************************************************************************)

\* The second run of the stage, without force, is over.
SecondRunOver == run_no = 2 /\ ~force /\ bpc = "done"

\* C21: a second run of the conversion stage with force=false on the same
\* (non-empty) set of input files calls the converter for no file (every
\* file is skipped because its CSV exists and is not empty), writes no CSV
\* file and returns True.
C21_SecondRunSkipsEverything ==
    (SecondRunOver /\ trace_files # <<>>) =>
        /\ \A f \in DOMAIN trace_files :
              csv_already_exists(f) /\ convert_calls[f] = 0
        /\ csv_written = {}
        /\ stage_result = "True"

\* The same, for the input sets that are not empty and whose every file has
\* a CSV when the second run starts.
C21_HoldsWhenEveryFileHasItsCsv ==
    (/\ SecondRunOver
     /\ trace_files # <<>>
     /\ \A f \in DOMAIN trace_files : trace_files[f].has_csv)
    => /\ \A f \in DOMAIN trace_files : convert_calls[f] = 0
       /\ csv_written = {}
       /\ stage_result = "True"

\* Whatever the files hold, the second run without force writes no CSV.
C21_SecondRunWritesNothing == SecondRunOver => csv_written = {}

\* A second run that skipped every one of several files.
C21_AllSkippedReached ==
    /\ SecondRunOver /\ Len(trace_files) >= 2 /\ stage_result = "True"
    /\ \A f \in DOMAIN trace_files : trace_files[f].has_csv


\* Every file found had its CSV when the run started.
AllAlreadyConverted == \A f \in DOMAIN trace_files : trace_files[f].has_csv

\* C22: an empty input set is a success and no error: when the run of the
\* conversion stage (without force) is over and no JSON file was found, or
\* every file found was already converted, batch_json_to_csv has returned
\* True.
C22_EmptyInputSetIsSuccess ==
    (bpc = "done" /\ ~force /\ (trace_files = <<>> \/ AllAlreadyConverted))
        => stage_result = "True"

\* The part of it about the files that are all converted (and at least one
\* file found).
C22_AllConvertedIsSuccess ==
    (bpc = "done" /\ ~force /\ trace_files # <<>> /\ AllAlreadyConverted)
        => (stage_result = "True" /\ csv_written = {})

\* aggregate_daily_csv on a csv directory without any file.
C22_AggregateOfNothingIsSuccess ==
    (apc = "done" /\ csv_files = <<>>) => agg_result = TRUE


(***************************************************************************)
(* ============================ orchestrators ============================ *)
(***************************************************************************)

\* Every requested date goes through every stage without failing or raising.
EveryDateSucceeds ==
    \A i \in DOMAIN dates : date_outcome[dates[i]] = AllOk

\* C23: the multi-step pipeline runner exits with code 0 when every
\* requested date succeeded in every stage and with code 1 when a requested
\* date failed a stage.
C23_ExitCodeTellsSuccess ==
    ppc = "done" => (exit_code = 0 <=> EveryDateSucceeds)

\* The dates of the stage calls made, in call order and without the
\* repeats of one date's consecutive stages.
RECURSIVE DatesOf(_)
DatesOf(calls) ==
    IF calls = <<>> THEN <<>>
    ELSE LET rest == DatesOf(SubSeq(calls, 1, Len(calls) - 1))
             d == calls[Len(calls)][1]
         IN  IF rest # <<>> /\ rest[Len(rest)] = d THEN rest ELSE Append(rest, d)

\* C24: when the orchestrator's run is over, every requested date was
\* attempted, in the order of the command line, whatever stage failed or
\* raised for an earlier date, and every stage that raised was logged.
C24_LaterDatesStillAttempted ==
    ppc = "done" =>
        /\ DatesOf(attempted) = dates
        /\ \A i \in DOMAIN dates :
              date_outcome[dates[i]].how = "raises" =>
                  \E k \in DOMAIN error_log : error_log[k] = dates[i]

\* The same for scripts/get_traces.py alone.
C24_GetTracesConforms ==
    orchestrator = "get_traces" => C24_LaterDatesStillAttempted

\* get_traces went on to the second date after a stage raised for the first.
C24_GetTracesContinuedReached ==
    /\ orchestrator = "get_traces" /\ ppc = "done" /\ Len(dates) = 2
    /\ date_outcome[dates[1]].how = "raises"
    /\ error_log = <<dates[1]>>
    /\ \E k \in DOMAIN attempted : attempted[k][1] = dates[2]


(***************************************************************************)
(* ============================ backpressure ============================= *)
(***************************************************************************)

\* C25: at every point of convert_date_to_csv the result queue holds at
\* most QUEUE_SIZE decoded batches.  (The file queue, of the same capacity,
\* has taken every file and one sentinel per worker before the first worker
\* starts, so the batches waiting are even fewer than QUEUE_SIZE minus
\* MAX_WORKERS + 1 and no worker ever finds the result queue full.)
C25_ResultQueueBounded ==
    /\ Len(result_queue) <= QUEUE_SIZE
    /\ Len(result_queue) <= QUEUE_SIZE - MAX_WORKERS
    /\ \A w \in Workers :
          (w <= started /\ wpc[w] = "put_result") => ~QueueFull(result_queue)

\* The consumer was interrupted and every file's batch waits in the queue.
C25_WitnessAllBatchesWaiting ==
    /\ interrupted
    /\ Len(result_queue) = QUEUE_SIZE - MAX_WORKERS
    /\ \A w \in Workers : w <= started /\ wpc[w] = "exit"


(***************************************************************************)
(* ================= ThreadSafeCSVWriter, concurrent calls =============== *)
(***************************************************************************)

\* The threads inside the locked block of write_rows.
Appending == {t \in DOMAIN tpc : tpc[t] \in {"write", "load", "store", "unlock"}}

\* The rows of one call are next to each other and in order in the file.
Contiguous ==
    \A i, j \in DOMAIN shared_file :
        (/\ i < j /\ shared_file[i] # "header" /\ shared_file[j] # "header"
         /\ shared_file[i][1] = shared_file[j][1]
         /\ shared_file[i][2] = shared_file[j][2])
        => /\ shared_file[j][3] = shared_file[i][3] + (j - i)
           /\ \A k \in i..j : shared_file[k][1] = shared_file[i][1]

\* C26: under every interleaving of threads that call write_rows on one
\* ThreadSafeCSVWriter, at most one thread is inside the appending block at
\* a time, the rows of one call are contiguous in the file, and whenever no
\* call is in progress row_count is the total number of rows passed to the
\* calls that have returned (and the number of rows in the file).
C26_WritesAreSerialized ==
    /\ Cardinality(Appending) <= 1
    /\ Contiguous
    /\ (\A t \in DOMAIN tpc : tpc[t] = "idle") =>
          /\ shared_row_count = completed_rows
          /\ Len(shared_file) = 1 + completed_rows

\* A thread waits for the lock while another one, which took the lock after
\* an earlier call had returned, is in the middle of its rows.
C26_WitnessWaitingForLock ==
    \E t, u \in DOMAIN tpc :
        /\ tpc[t] = "write" /\ rows_done[t] = 1 /\ call_rows[t] = 2
        /\ tpc[u] = "lock"
        /\ completed_rows > 0

\* C28: CSVRowWriter fixes its header to the keys of the first row written
\* and never changes it afterwards; a later write_row whose row has a key
\* outside that header raises: that call writes nothing to the file and
\* leaves rows_written alone, while every other call appends exactly one
\* data row and counts it.
C28_HeaderFixedAndOutsideRowsRejected ==
    [][writer_class = "CSVRowWriter" =>
          /\ header_keys # "none" => header_keys' = header_keys
          /\ outside_header_calls' > outside_header_calls =>
                /\ file_lines' = file_lines
                /\ total_rows_written' = total_rows_written
          /\ (row_counts'[1] > row_counts[1]
                 /\ outside_header_calls' = outside_header_calls) =>
                /\ total_rows_written'[1] = total_rows_written[1] + 1
                /\ Len(file_lines'[1]) = 2 + total_rows_written[1]
                /\ header_keys' # "none"]_vars

\* C28: a row was written, a later row with a key outside the header was
\* rejected, and a row written after that was accepted again.
C28_WitnessRejectedThenWritten ==
    /\ writer_class = "CSVRowWriter"
    /\ header_keys = "keys"
    /\ outside_header_calls = 1
    /\ row_counts[1] = 3
    /\ total_rows_written[1] = 2
    /\ file_lines[1] = <<"header", "row", "row">>


\* C27: every row written by the static-schema writer has exactly the
\* declared columns in the declared order: the cell of a declared column is
\* the row's value, empty when the row lacks the column, and a row key
\* outside the declared list is dropped: the write does not raise and the
\* line gets no cell for it.
C27_RowsHaveExactlyTheDeclaredColumns ==
    all_fieldnames # <<>> =>
        /\ ~write_raised
        /\ Len(csv_lines) = Len(dec_rows)
        /\ all_fieldnames = TOP_LEVEL_FIELDS \o CORE_TRACE_FIELDS
                               \o Sorted(Range(all_fieldnames) \ (Range(TOP_LEVEL_FIELDS) \cup Range(CORE_TRACE_FIELDS)))
        /\ \A r \in DOMAIN csv_lines :
              /\ Len(csv_lines[r]) = Len(all_fieldnames)
              /\ \A i \in DOMAIN all_fieldnames :
                    csv_lines[r][i] =
                        IF all_fieldnames[i] \in DOMAIN dec_rows[r]
                           THEN CsvCell(dec_rows[r][all_fieldnames[i]])
                           ELSE Str(0)

\* C27: a written row had a metadata key that the sampling did not see
\* (dropped) and lacked a declared metadata column (written empty).
C27_WitnessUnsampledKeyDropped ==
    /\ all_fieldnames # <<>>
    /\ \E r \in DOMAIN csv_lines :
          /\ "meta_flight" \in DOMAIN dec_rows[r]
          /\ "meta_flight" \notin Range(all_fieldnames)
    /\ \E r \in DOMAIN csv_lines :
          /\ "meta_squawk" \in Range(all_fieldnames)
          /\ "meta_squawk" \notin DOMAIN dec_rows[r]
          /\ csv_lines[r][Len(all_fieldnames)] = Str(0)


\* C29: write_chunked_csv writes the header with the first chunk only and
\* then appends blocks of at most chunk_size rows in frame order: while it
\* runs the file is one header followed by the first rows of the frame, a
\* whole number of chunks, and when it returns the file is one header
\* followed by all rows of the frame, once and in order, which is what the
\* single unchunked write leaves.
C29_ChunkedWriteEqualsWholeWrite ==
    /\ (apc = "write" /\ out_exists) =>
          /\ out_headers = <<0>>
          /\ Len(out_rows) = start_idx
          /\ start_idx % CHUNK_SIZE = 0
          /\ start_idx < Len(final_df)
          /\ out_rows = SubSeq(final_df, 1, start_idx)
    /\ (apc = "done" /\ agg_result = TRUE) =>
          /\ out_exists
          /\ out_headers = <<0>>
          /\ out_rows = final_df

\* C29: a frame of two chunks, the second one shorter than chunk_size, has
\* been written completely.
C29_WitnessTwoChunksWritten ==
    /\ apc = "done"
    /\ agg_result = TRUE
    /\ Len(final_df) = CHUNK_SIZE + 1
    /\ start_idx = 2 * CHUNK_SIZE
    /\ out_headers = <<0>>
    /\ out_rows = final_df

\* C30: the statistics that flatten_all_json_to_hourly_csv reports account
\* for every routed row: total_rows equals the sum of the hourly row_counts,
\* and files_created lists the file of every hour that received at least one
\* row.
C30_StatisticsAccountForEveryRow ==
    stats.taken =>
        /\ stats.total_rows = SumSeq(row_counts)
        /\ \A h \in Hours : row_counts[h] > 0 => h \in stats.files_created

\* C30: what get_statistics returns when it is called: the rows flushed so
\* far, and the hours that had a flush.
C30_StatisticsCountFlushedRowsOnly ==
    wmpc = "stats" =>
        /\ stats.total_rows = SumSeq(row_counts) - SumSeq(buffer)
        /\ stats.files_created = {h \in Hours : row_counts[h] >= BUFFER_SIZE}

\* C30: the run is over, an hour got one row that get_statistics did not
\* count, and its file, which holds the row, is not listed.
C30_BufferedRowNotCountedReached ==
    /\ wmpc = "exited"
    /\ stats.taken
    /\ row_counts[1] = 1
    /\ file_lines[1] = <<"header", "row">>
    /\ 1 \notin stats.files_created
    /\ stats.total_rows < SumSeq(row_counts)


==========================================================================
